---------------------------- MODULE Spec2Model ----------------------------
(***************************************************************************)
(* Model of the unused-component detector (version 1.0.3, the variant with *)
(* the content cache and batched file processing): scanner, dependency     *)
(* analyzer, safety checker and the scan command that runs them.           *)
(*                                                                         *)
(* Text is modelled as a sequence of one-character strings, so that path   *)
(* arithmetic (dirname, extname, resolution of "." and "..", appending an  *)
(* extension) is computed the way node's path module computes it.  A file's *)
(* text is a sequence of statements, each of one lexical shape; a regular  *)
(* expression of the source is modelled by the set of shapes it matches.   *)
(***************************************************************************)
EXTENDS Naturals, Integers, Sequences, FiniteSets, TLC

(***************************************************************************)
(* Strings                                                                 *)
(***************************************************************************)
Max(S) == CHOOSE x \in S : \A y \in S : y <= x

Min(S) == CHOOSE x \in S : \A y \in S : x <= y

\* s.startsWith(p)
StartsWith(s, p) == Len(p) <= Len(s) /\ SubSeq(s, 1, Len(p)) = p

\* s.endsWith(p)
EndsWith(s, p) == Len(p) <= Len(s) /\ SubSeq(s, Len(s) - Len(p) + 1, Len(s)) = p

\* s.includes(p)
Includes(s, p) ==
    \E i \in 1..(Len(s) + 1) :
        i + Len(p) - 1 <= Len(s) /\ SubSeq(s, i, i + Len(p) - 1) = p

\* s.lastIndexOf(c) for a character c, 1-based, 0 when absent
LastIndexOf(s, c) ==
    LET I == {i \in 1..Len(s) : s[i] = c}
    IN  IF I = {} THEN 0 ELSE Max(I)

\* s.indexOf(c) for a character c, 1-based, 0 when absent
IndexOf(s, c) ==
    LET I == {i \in 1..Len(s) : s[i] = c}
    IN  IF I = {} THEN 0 ELSE Min(I)

\* s.split(c) for a character c
RECURSIVE Split(_, _)
Split(s, c) ==
    LET i == IndexOf(s, c)
    IN  IF i = 0 THEN <<s>>
        ELSE <<SubSeq(s, 1, i - 1)>> \o Split(SubSeq(s, i + 1, Len(s)), c)

\* segs.join(c)
RECURSIVE Join(_, _)
Join(segs, c) ==
    IF Len(segs) = 0 THEN <<>>
    ELSE IF Len(segs) = 1 THEN segs[1]
    ELSE segs[1] \o <<c>> \o Join(Tail(segs), c)

LowerLetters ==
    <<"a","b","c","d","e","f","g","h","i","j","k","l","m",
      "n","o","p","q","r","s","t","u","v","w","x","y","z">>

UpperLetters ==
    <<"A","B","C","D","E","F","G","H","I","J","K","L","M",
      "N","O","P","Q","R","S","T","U","V","W","X","Y","Z">>

UpperSet == {UpperLetters[i] : i \in 1..Len(UpperLetters)}

LowerSet == {LowerLetters[i] : i \in 1..Len(LowerLetters)}

IsUpper(c) == c \in UpperSet

IsLower(c) == c \in LowerSet

\* the upper-case letter of each lower-case letter
UpperOf ==
    [c \in LowerSet |->
        UpperLetters[CHOOSE i \in 1..Len(LowerLetters) : LowerLetters[i] = c]]

\* the lower-case letter of each upper-case letter
LowerOf ==
    [c \in UpperSet |->
        LowerLetters[CHOOSE i \in 1..Len(UpperLetters) : UpperLetters[i] = c]]

ToUpperChar(c) == IF IsLower(c) THEN UpperOf[c] ELSE c

ToLowerChar(c) == IF IsUpper(c) THEN LowerOf[c] ELSE c

\* s.toLowerCase()
ToLowerCase(s) == [i \in 1..Len(s) |-> ToLowerChar(s[i])]

\* s.toUpperCase()
ToUpperCase(s) == [i \in 1..Len(s) |-> ToUpperChar(s[i])]

(***************************************************************************)
(* node's path module, POSIX flavour                                       *)
(***************************************************************************)
\* path.isAbsolute(p)
IsAbsolute(p) == Len(p) > 0 /\ p[1] = "/"

\* The segment walk shared by path.normalize and path.resolve: empty and "."
\* segments are dropped, ".." removes the segment before it.  Above the root
\* of an absolute path ".." is dropped; in a relative path it is kept.
RECURSIVE NormalizeSegs(_, _, _)
NormalizeSegs(segs, acc, abs) ==
    IF Len(segs) = 0 THEN acc
    ELSE LET h == Head(segs)
             t == Tail(segs)
         IN  IF h = <<>> \/ h = <<".">> THEN NormalizeSegs(t, acc, abs)
             ELSE IF h = <<".", ".">>
                  THEN IF Len(acc) > 0 /\ acc[Len(acc)] # <<".", ".">>
                       THEN NormalizeSegs(t, SubSeq(acc, 1, Len(acc) - 1), abs)
                       ELSE IF abs THEN NormalizeSegs(t, acc, abs)
                            ELSE NormalizeSegs(t, Append(acc, h), abs)
                  ELSE NormalizeSegs(t, Append(acc, h), abs)

\* path.normalize(p): a trailing separator is kept, the empty path is "."
PathNormalize(p) ==
    IF Len(p) = 0 THEN <<".">>
    ELSE LET abs   == IsAbsolute(p)
             trail == p[Len(p)] = "/"
             body  == Join(NormalizeSegs(Split(p, "/"), <<>>, abs), "/")
         IN  IF abs
             THEN IF Len(body) = 0 THEN <<"/">>
                  ELSE <<"/">> \o body \o (IF trail THEN <<"/">> ELSE <<>>)
             ELSE IF Len(body) = 0
                  THEN (IF trail THEN <<".", "/">> ELSE <<".">>)
                  ELSE body \o (IF trail THEN <<"/">> ELSE <<>>)

\* path.resolve(from, to) with an absolute from: an absolute to replaces from,
\* the result is absolute, normalized and has no trailing separator
PathResolve(from, to) ==
    LET joined == IF IsAbsolute(to) THEN to ELSE from \o <<"/">> \o to
    IN  <<"/">> \o Join(NormalizeSegs(Split(joined, "/"), <<>>, TRUE), "/")

\* path.join(a, b)
PathJoin(a, b) == PathNormalize(a \o <<"/">> \o b)

\* p without its trailing separators (at least one character is kept)
RECURSIVE StripTrailingSlashes(_)
StripTrailingSlashes(p) ==
    IF Len(p) > 1 /\ p[Len(p)] = "/"
    THEN StripTrailingSlashes(SubSeq(p, 1, Len(p) - 1))
    ELSE p

\* path.dirname(p)
PathDirname(p) ==
    IF Len(p) = 0 THEN <<".">>
    ELSE LET q == StripTrailingSlashes(p)
             i == LastIndexOf(q, "/")
         IN  IF i = 0 THEN <<".">>
             ELSE IF i = 1 THEN <<"/">>
             ELSE StripTrailingSlashes(SubSeq(q, 1, i - 1))

\* path.basename(p)
PathBasename(p) ==
    LET q == StripTrailingSlashes(p)
        i == LastIndexOf(q, "/")
    IN  IF q = <<"/">> THEN <<>> ELSE SubSeq(q, i + 1, Len(q))

\* path.extname(p): from the last "." of the base name, unless that "." is the
\* base name's first character
PathExtname(p) ==
    LET b == PathBasename(p)
        i == LastIndexOf(b, ".")
    IN  IF i <= 1 \/ b = <<".", ".">> THEN <<>> ELSE SubSeq(b, i, Len(b))

\* path.basename(p, ext)
PathBasenameExt(p, ext) ==
    LET b == PathBasename(p)
    IN  IF Len(ext) > 0 /\ EndsWith(b, ext) /\ b # ext
        THEN SubSeq(b, 1, Len(b) - Len(ext))
        ELSE b

(***************************************************************************)
(* Text constants of the source                                            *)
(***************************************************************************)
\* the source extensions probed by resolveImportPath, in order
extensions ==
    << <<".","t","s","x">>, <<".","t","s">>, <<".","j","s","x">>, <<".","j","s">> >>

\* the implicit index files probed by resolveImportPath, in order
indexFiles ==
    << <<"i","n","d","e","x",".","t","s","x">>, <<"i","n","d","e","x",".","t","s">>,
       <<"i","n","d","e","x",".","j","s","x">>, <<"i","n","d","e","x",".","j","s">> >>

\* the alternatives of /\.(tsx?|jsx?|mjs|cjs)$/ in pathsMatch
MatchExts ==
    { <<".","t","s","x">>, <<".","t","s">>, <<".","j","s","x">>, <<".","j","s">>,
      <<".","m","j","s">>, <<".","c","j","s">> }

\* the extensions of the glob **/*.{js,jsx,ts,tsx}
GlobExts ==
    { <<".","j","s">>, <<".","j","s","x">>, <<".","t","s">>, <<".","t","s","x">> }

sNodeModules == <<"n","o","d","e","_","m","o","d","u","l","e","s">>

sIndex == <<"i","n","d","e","x">>

(***************************************************************************)
(* The file system: fs is a function from the paths of the existing files  *)
(* to their text.  A directory exists when a file lies below it.           *)
(***************************************************************************)
IsFile(fs, p) == p \in DOMAIN fs

\* fs.statSync(p).isDirectory()
IsDirectory(fs, p) ==
    \/ p = <<"/">>
    \/ \E f \in DOMAIN fs : StartsWith(f, p \o <<"/">>)

\* fs.existsSync(p)
existsSync(fs, p) == IsFile(fs, p) \/ IsDirectory(fs, p)

(***************************************************************************)
(* DependencyAnalyzer: the path functions                                  *)
(***************************************************************************)
\* normalized.replace(/\\/g, '/')
BackslashesToSlashes(s) == [i \in 1..Len(s) |-> IF s[i] = "\\" THEN "/" ELSE s[i]]

\* lines 1114-1116: a relative path is resolved against the project root
AbsoluteIn(root, normalized) ==
    IF ~IsAbsolute(normalized) THEN PathResolve(root, normalized) ELSE normalized

normalizePath(root, filePath) ==
    BackslashesToSlashes(
        PathResolve(root, AbsoluteIn(root, PathNormalize(filePath))))

\* s.replace(/\.(tsx?|jsx?|mjs|cjs)$/, '')
StripSourceExt(s) ==
    IF LastIndexOf(s, ".") > 0 /\ SubSeq(s, LastIndexOf(s, "."), Len(s)) \in MatchExts
    THEN SubSeq(s, 1, LastIndexOf(s, ".") - 1)
    ELSE s

normalizedMatchNoIndexRule(normalized1, normalized2) ==
    \/ normalized1 = normalized2
    \/ StripSourceExt(normalized1) = StripSourceExt(normalized2)

\* lines 1129-1152: pathsMatch on the two normalized paths
normalizedMatch(normalized1, normalized2) ==
    \/ normalized1 = normalized2
    \/ StripSourceExt(normalized1) = StripSourceExt(normalized2)
    \/ /\ PathBasenameExt(normalized1, PathExtname(normalized1)) = sIndex
       /\ PathDirname(normalized1) = StripSourceExt(normalized2)
    \/ /\ PathBasenameExt(normalized2, PathExtname(normalized2)) = sIndex
       /\ PathDirname(normalized2) = StripSourceExt(normalized1)

\* a match whose index rule looks at the first path only
pathsMatchIndexOfFirstOnly(root, path1, path2) ==
    \/ normalizedMatchNoIndexRule(normalizePath(root, path1), normalizePath(root, path2))
    \/ /\ PathBasenameExt(normalizePath(root, path1),
                           PathExtname(normalizePath(root, path1))) = sIndex
       /\ PathDirname(normalizePath(root, path1)) =
             StripSourceExt(normalizePath(root, path2))

pathsMatch(root, path1, path2) ==
    normalizedMatch(normalizePath(root, path1), normalizePath(root, path2))

\* the first path of candidates that exists, or <<>> when none does
RECURSIVE FirstExisting(_, _)
FirstExisting(fs, candidates) ==
    IF Len(candidates) = 0 THEN <<>>
    ELSE IF existsSync(fs, Head(candidates)) THEN Head(candidates)
    ELSE FirstExisting(fs, Tail(candidates))

\* the first index file that exists inside dir, or <<>> when none does
FirstIndexIn(fs, dir) ==
    FirstExisting(fs, [i \in 1..Len(indexFiles) |-> PathJoin(dir, indexFiles[i])])

\* the first extension-appended path that exists, or <<>> when none does
FirstWithExtension(fs, resolvedPath) ==
    FirstExisting(fs, [i \in 1..Len(extensions) |-> resolvedPath \o extensions[i]])

\* found when a probe found a file, else fallback
OrElse(found, fallback) == IF found # <<>> THEN found ELSE fallback

\* lines 1068-1105: the path the probes settle on.  A literal path that
\* exists is final; when it is a directory its index files are tried first.
Probe(fs, resolvedPath) ==
    IF existsSync(fs, resolvedPath)
    THEN IF IsDirectory(fs, resolvedPath)
         THEN OrElse(FirstIndexIn(fs, resolvedPath), resolvedPath)
         ELSE resolvedPath
    ELSE OrElse(FirstWithExtension(fs, resolvedPath),
                OrElse(FirstIndexIn(fs, resolvedPath), resolvedPath))

resolveImportPath(fs, root, importPath, sourceFile) ==
    normalizePath(root,
        IF IsAbsolute(importPath) THEN importPath
        ELSE Probe(fs, PathResolve(PathDirname(sourceFile), importPath)))

isLocalModuleAlways(importPath) == TRUE

isLocalModule(importPath) ==
    StartsWith(importPath, <<".">>) \/ StartsWith(importPath, <<"/">>)

(***************************************************************************)
(* File text.  A text is a sequence of statements, one per line; a         *)
(* statement has a lexical shape, a module specifier (for the shapes that  *)
(* carry one) and an identifier (for the shapes that carry one).  Render   *)
(* gives the characters of the line.                                       *)
(***************************************************************************)
Shapes ==
    { "importDefault",          \* import X from 'S'
      "importNamed",            \* import { X } from 'S'
      "importNamespace",        \* import * as X from 'S'
      "importDefaultNamed",     \* import X, { X } from 'S'
      "importDefaultNamespace", \* import X, * as X from 'S'
      "dynamicImport",          \* import('S')
      "require",                \* require('S')
      "requireResolve",         \* require.resolve('S')
      "sideEffectImport",       \* import 'S'
      "exportStar",             \* export * from 'S'
      "componentDecl",          \* export default function X() {}
      "jsx",                    \* <X />
      "comment" }               \* // X

Stmt(shape, spec, name) == [shape |-> shape, spec |-> spec, name |-> name]

Render(st) ==
    CASE st.shape = "importDefault" ->
            <<"i","m","p","o","r","t"," ">> \o st.name \o <<" ","f","r","o","m"," ","'">> \o st.spec \o <<"'">>
      [] st.shape = "importNamed" ->
            <<"i","m","p","o","r","t"," ">> \o <<"{"," ">> \o st.name \o <<" ","}">> \o <<" ","f","r","o","m"," ","'">> \o st.spec \o <<"'">>
      [] st.shape = "importNamespace" ->
            <<"i","m","p","o","r","t"," ">> \o <<"*"," ","a","s"," ">> \o st.name \o <<" ","f","r","o","m"," ","'">> \o st.spec \o <<"'">>
      [] st.shape = "importDefaultNamed" ->
            <<"i","m","p","o","r","t"," ">> \o st.name \o <<","," ">> \o <<"{"," ">> \o st.name \o <<" ","}">>
                \o <<" ","f","r","o","m"," ","'">> \o st.spec \o <<"'">>
      [] st.shape = "importDefaultNamespace" ->
            <<"i","m","p","o","r","t"," ">> \o st.name \o <<","," ">> \o <<"*"," ","a","s"," ">> \o st.name
                \o <<" ","f","r","o","m"," ","'">> \o st.spec \o <<"'">>
      [] st.shape = "dynamicImport" -> <<"i","m","p","o","r","t","(","'">> \o st.spec \o <<"'",")">>
      [] st.shape = "require" -> <<"r","e","q","u","i","r","e","(","'">> \o st.spec \o <<"'",")">>
      [] st.shape = "requireResolve" -> <<"r","e","q","u","i","r","e",".","r","e","s","o","l","v","e","(","'">> \o st.spec \o <<"'",")">>
      [] st.shape = "sideEffectImport" -> <<"i","m","p","o","r","t"," ","'">> \o st.spec \o <<"'">>
      [] st.shape = "exportStar" -> <<"e","x","p","o","r","t"," ","*"," ","f","r","o","m"," ","'">> \o st.spec \o <<"'">>
      [] st.shape = "componentDecl" -> <<"e","x","p","o","r","t"," ","d","e","f","a","u","l","t"," ","f","u","n","c","t","i","o","n"," ">> \o st.name \o <<"(",")"," ","{","}">>
      [] st.shape = "jsx" -> <<"<">> \o st.name \o <<" ","/",">">>
      [] OTHER -> <<"/","/"," ">> \o st.name

(***************************************************************************)
(* Content cache (scanner)                                                 *)
(***************************************************************************)
\* the one path of the workspaces on which fs.readFileSync throws although
\* the file exists (no read permission)
pLocked == <<"/","r","/","L",".","t","s","x">>

UnreadablePaths == {pLocked}

\* the index file of the directory that shares the name of L.tsx
pLockedIndex == <<"/","r","/","L","/","i","n","d","e","x",".","t","s","x">>

\* fs.readFileSync(filePath, 'utf-8') returns: the file exists and can be read
readFileSyncSucceeds(fs, filePath) ==
    IsFile(fs, filePath) /\ filePath \notin UnreadablePaths

\* a getCachedContent whose read never fails on an existing file
getCachedContentValueReadingAnyway(cache, fs, filePath) ==
    IF filePath \in DOMAIN cache THEN cache[filePath]
    ELSE IF IsFile(fs, filePath) THEN fs[filePath]
    ELSE <<>>

\* getCachedContent returns the cached text when the key is present, else
\* the text read, else '' when the read throws
getCachedContentValue(cache, fs, filePath) ==
    IF filePath \in DOMAIN cache THEN cache[filePath]
    ELSE IF readFileSyncSucceeds(fs, filePath) THEN fs[filePath]
    ELSE <<>>

\* a cache that stores the text of every successful read, hit or not
getCachedContentCacheOverwriting(cache, fs, filePath) ==
    IF readFileSyncSucceeds(fs, filePath)
    THEN [p \in DOMAIN cache \cup {filePath} |->
             IF p = filePath THEN fs[filePath] ELSE cache[p]]
    ELSE cache

\* the cache after getCachedContent(filePath): a successful read is stored
getCachedContentCache(cache, fs, filePath) ==
    IF filePath \in DOMAIN cache THEN cache
    ELSE IF readFileSyncSucceeds(fs, filePath)
         THEN [p \in DOMAIN cache \cup {filePath} |->
                  IF p = filePath THEN fs[filePath] ELSE cache[p]]
    ELSE cache

(***************************************************************************)
(* DependencyAnalyzer.extractImportsFast                                   *)
(***************************************************************************)
\* shapes matched by es6Regex
\*   /import\s+(?:(?:\*\s+as\s+\w+)|(?:\{[^}]*\})|(?:\w+)|(?:\w+\s*,\s*\{[^}]*\}))\s+from\s+['"]([^'"]+)['"]/g
Es6Shapes == {"importDefault", "importNamed", "importNamespace", "importDefaultNamed"}

\* shapes matched by dynamicRegex  /import\s*\(\s*['"]([^'"]+)['"]\s*\)/g
DynamicShapes == {"dynamicImport"}

\* shapes matched by requireRegex  /require\s*\(\s*['"]([^'"]+)['"]\s*\)/g
RequireShapes == {"require"}

FileImport(importPath, isDynamic, sourceFile) ==
    [importPath |-> importPath, isDynamic |-> isDynamic, sourceFile |-> sourceFile]

\* one regex scan: a FileImport for every statement of a matched shape whose
\* specifier is local, in text order
RECURSIVE ScanShapes(_, _, _, _)
ScanShapes(content, shapes, isDynamic, filePath) ==
    IF Len(content) = 0 THEN <<>>
    ELSE LET st == Head(content)
             rest == ScanShapes(Tail(content), shapes, isDynamic, filePath)
         IN  IF st.shape \in shapes /\ isLocalModule(st.spec)
             THEN <<FileImport(st.spec, isDynamic, filePath)>> \o rest
             ELSE rest

extractImportsFast(content, filePath) ==
    IF Len(content) = 0 THEN <<>>
    ELSE ScanShapes(content, Es6Shapes, FALSE, filePath)
         \o ScanShapes(content, DynamicShapes, TRUE, filePath)
         \o ScanShapes(content, RequireShapes, FALSE, filePath)

(***************************************************************************)
(* Scanner                                                                 *)
(***************************************************************************)
\* the characters /[-_\s]+/ splits on
IsNameSeparator(c) == c \in {"-", "_", " ", "\t"}

\* part.charAt(0).toUpperCase() + part.slice(1).toLowerCase()
Capitalize(part) ==
    IF Len(part) = 0 THEN <<>>
    ELSE <<ToUpperChar(part[1])>> \o ToLowerCase(SubSeq(part, 2, Len(part)))

\* split(/[-_\s]+/).flatMap(part => part.split(/(?=[A-Z])/)).filter(nonempty),
\* each part capitalized, joined: cur is the part being read
RECURSIVE PascalParts(_, _)
PascalParts(str, cur) ==
    IF Len(str) = 0 THEN Capitalize(cur)
    ELSE LET c == Head(str)
         IN  IF IsNameSeparator(c) THEN Capitalize(cur) \o PascalParts(Tail(str), <<>>)
             ELSE IF IsUpper(c) THEN Capitalize(cur) \o PascalParts(Tail(str), <<c>>)
             ELSE PascalParts(Tail(str), Append(cur, c))

\* path.parse(fileName).name
ParsedName(fileName) == PathBasenameExt(fileName, PathExtname(fileName))

\* a derivation that capitalizes the parts of the whole file name
toPascalCaseOfFileName(fileName) == PascalParts(fileName, <<>>)

toPascalCase(fileName) ==
    IF ParsedName(fileName) = sIndex THEN <<"I","n","d","e","x">>
    ELSE PascalParts(ParsedName(fileName), <<>>)

\* the fragments of skipFiles, lower-cased as the code lower-cases them
skipFiles ==
    { ToLowerCase(<<"s","e","t","u","p","t","e","s","t">>), ToLowerCase(<<"r","e","p","o","r","t","w","e","b","v","i","t","a","l","s">>),
      ToLowerCase(<<"s","e","r","v","i","c","e","W","o","r","k","e","r">>), ToLowerCase(<<".","d",".","t","s">>),
      ToLowerCase(<<".","t","e","s","t",".">>), ToLowerCase(<<".","s","p","e","c",".">>) }

\* an exclusion that knows the vendoring directory only
shouldExcludeFileVendoredOnly(filePath) ==
    Includes(filePath, sNodeModules)

\* shouldExcludeFile without options: the scan command passes none
shouldExcludeFile(filePath) ==
    \/ Includes(filePath, sNodeModules)
    \/ \E skip \in skipFiles : Includes(ToLowerCase(PathBasename(filePath)), skip)

\* /<[A-Z]/.test(line) || /<\/[A-Z]/.test(line)
LineHasJSX(line) ==
    \E i \in 1..Len(line) :
        /\ line[i] = "<"
        /\ \/ (i + 1 <= Len(line) /\ IsUpper(line[i + 1]))
           \/ (i + 2 <= Len(line) /\ line[i + 1] = "/" /\ IsUpper(line[i + 2]))

\* content.includes("from 'react'") || includes('from "react"') || includes("from 'react/")
LineHasReactImport(line) ==
    \/ Includes(line, <<"f","r","o","m"," ","'","r","e","a","c","t","'">>)
    \/ Includes(line, <<"f","r","o","m"," ","\"","r","e","a","c","t","\"">>)
    \/ Includes(line, <<"f","r","o","m"," ","'","r","e","a","c","t","/">>)

\* /(function|const|class)\s+[A-Z][a-zA-Z0-9]*\s*[=\(]/ and
\* /export\s+(default\s+)?(function|const|class)\s+[A-Z][a-zA-Z0-9]*/ :
\* of the shapes, only a declaration of a capitalized name matches
StmtHasComponentPattern(st) ==
    st.shape = "componentDecl" /\ Len(st.name) > 0 /\ IsUpper(st.name[1])

isReactComponentContent(content) ==
    LET hasReactImport == \E i \in 1..Len(content) : LineHasReactImport(Render(content[i]))
        hasJSX == \E i \in 1..Len(content) : LineHasJSX(Render(content[i]))
        hasComponentPattern == \E i \in 1..Len(content) : StmtHasComponentPattern(content[i])
    IN  IF ~hasReactImport /\ ~hasJSX THEN FALSE
        ELSE (hasReactImport \/ hasJSX) /\ (hasJSX \/ hasComponentPattern)

\* vscode.workspace.findFiles('**/*.{js,jsx,ts,tsx}', '**/node_modules/**')
FindSourceFiles(fs) ==
    {f \in DOMAIN fs :
        /\ PathExtname(f) \in GlobExts
        /\ \A i \in 1..Len(Split(f, "/")) - 1 : Split(f, "/")[i] # sNodeModules}

ComponentInfo(filePath) ==
    [filePath |-> filePath,
     fileName |-> PathBasename(filePath),
     componentName |-> toPascalCase(PathBasename(filePath))]

\* The collation order of a.localeCompare(b) on the characters of the model:
\* punctuation before digits before letters, case deciding only between
\* strings that are otherwise equal (lower case first).
CollationOrder ==
    <<"_", "-", ".", "/", "@", "0", "1", "2", "3", "4", "5", "6", "7", "8", "9">>
    \o LowerLetters

\* the place of each character in CollationOrder
RankOf ==
    [c \in {CollationOrder[i] : i \in 1..Len(CollationOrder)} |->
        CHOOSE i \in 1..Len(CollationOrder) : CollationOrder[i] = c]

CollationRank(c) ==
    IF ToLowerChar(c) \in DOMAIN RankOf THEN RankOf[ToLowerChar(c)] ELSE 0

RECURSIVE PrimaryCompare(_, _)
PrimaryCompare(a, b) ==
    IF Len(a) = 0 /\ Len(b) = 0 THEN 0
    ELSE IF Len(a) = 0 THEN 0 - 1
    ELSE IF Len(b) = 0 THEN 1
    ELSE IF CollationRank(a[1]) < CollationRank(b[1]) THEN 0 - 1
    ELSE IF CollationRank(a[1]) > CollationRank(b[1]) THEN 1
    ELSE PrimaryCompare(Tail(a), Tail(b))

RECURSIVE CaseCompare(_, _)
CaseCompare(a, b) ==
    IF Len(a) = 0 \/ Len(b) = 0 THEN 0
    ELSE IF a[1] = b[1] THEN CaseCompare(Tail(a), Tail(b))
    ELSE IF IsLower(a[1]) THEN 0 - 1 ELSE 1

localeCompare(a, b) ==
    IF PrimaryCompare(a, b) # 0 THEN PrimaryCompare(a, b) ELSE CaseCompare(a, b)

\* components.sort((a, b) => a.filePath.localeCompare(b.filePath)) on a set of
\* components with distinct paths
LeastByFilePath(S) ==
    CHOOSE x \in S : \A y \in S : localeCompare(x.filePath, y.filePath) <= 0

RECURSIVE SortByFilePath(_)
SortByFilePath(S) ==
    IF S = {} THEN <<>>
    ELSE <<LeastByFilePath(S)>> \o SortByFilePath(S \ {LeastByFilePath(S)})

\* a sequence of the paths of S, in the order findFiles reports them
PathSeq(S) ==
    [i \in 1..Cardinality(S) |-> SortByFilePath({[filePath |-> f] : f \in S})[i].filePath]

\* what a processBatch task returns for one file: its ComponentInfo, or
\* nothing (null) for an excluded, empty, unreadable or unclassified file
IsClassifiedUnit(content, filePath) ==
    /\ ~shouldExcludeFile(filePath)
    /\ Len(content) > 0
    /\ isReactComponentContent(content)

(***************************************************************************)
(* DependencyAnalyzer: graph assembly and findUnused                       *)
(***************************************************************************)
\* A JavaScript object or Map as a function; reading an absent key is undefined
Has(m, k) == k \in DOMAIN m

Put(m, k, v) == [x \in DOMAIN m \cup {k} |-> IF x = k THEN v ELSE m[x]]

EmptyMap == <<>>

\* seq.includes(x)
SeqIncludes(seq, x) == \E i \in 1..Len(seq) : seq[i] = x

\* normalizedComponentPaths: a Map from normalized path to original path, as
\* the sequence of its entries in insertion order; set() on a present key
\* replaces the value in place
SetEntry(entries, key, value) ==
    IF \E i \in 1..Len(entries) : entries[i][1] = key
    THEN [i \in 1..Len(entries) |->
             IF entries[i][1] = key THEN <<key, value>> ELSE entries[i]]
    ELSE Append(entries, <<key, value>>)

RECURSIVE NormalizedComponentPaths(_, _, _)
NormalizedComponentPaths(root, componentPaths, acc) ==
    IF Len(componentPaths) = 0 THEN acc
    ELSE NormalizedComponentPaths(root, Tail(componentPaths),
            SetEntry(acc, normalizePath(root, Head(componentPaths)),
                     Head(componentPaths)))

addDependentNoDedupe(graph, originalPath, filePath) ==
    Put(graph, originalPath,
        Append(IF Has(graph, originalPath) THEN graph[originalPath] ELSE <<>>, filePath))

\* an entry that keeps only the dependent added last
addDependentReplacing(graph, originalPath, filePath) ==
    Put(graph, originalPath, <<filePath>>)

\* lines 891-896: create the entry when missing, push filePath unless included
addDependent(graph, originalPath, filePath) ==
    LET g1 == IF ~Has(graph, originalPath) THEN Put(graph, originalPath, <<>>) ELSE graph
    IN  IF ~SeqIncludes(g1[originalPath], filePath)
        THEN Put(g1, originalPath, Append(g1[originalPath], filePath))
        ELSE g1

\* lines 889-898: one resolved import against every component
RECURSIVE MatchComponents(_, _, _, _, _)
MatchComponents(graph, root, comps, resolvedPath, filePath) ==
    IF Len(comps) = 0 THEN graph
    ELSE MatchComponents(
            IF pathsMatch(root, resolvedPath, Head(comps)[1])
            THEN addDependent(graph, Head(comps)[2], filePath)
            ELSE graph,
            root, Tail(comps), resolvedPath, filePath)

\* lines 882-899: the imports of one file, in order
RECURSIVE ProcessImports(_, _, _, _, _, _)
ProcessImports(graph, fs, root, comps, imports, filePath) ==
    IF Len(imports) = 0 THEN graph
    ELSE ProcessImports(
            MatchComponents(graph, root, comps,
                resolveImportPath(fs, root, Head(imports).importPath, filePath),
                filePath),
            fs, root, comps, Tail(imports), filePath)

\* lines 881-900: every entry of fileImports, in insertion order
RECURSIVE ProcessFileImports(_, _, _, _, _)
ProcessFileImports(graph, fs, root, comps, entries) ==
    IF Len(entries) = 0 THEN graph
    ELSE ProcessFileImports(
            ProcessImports(graph, fs, root, comps,
                           Head(entries).imports, Head(entries).filePath),
            fs, root, comps, Tail(entries))

initEmptyEntriesSkipped(graph, componentPaths) == graph

\* lines 903-907: an empty array for every component without an entry
RECURSIVE initEmptyEntries(_, _)
initEmptyEntries(graph, componentPaths) ==
    IF Len(componentPaths) = 0 THEN graph
    ELSE initEmptyEntries(
            IF ~Has(graph, Head(componentPaths))
            THEN Put(graph, Head(componentPaths), <<>>)
            ELSE graph,
            Tail(componentPaths))

\* lines 871-909: the synchronous part of analyzeImports
buildDependencyGraph(fs, root, componentPaths, entries) ==
    initEmptyEntries(
        ProcessFileImports(EmptyMap, fs, root,
            NormalizedComponentPaths(root, componentPaths, <<>>), entries),
        componentPaths)

findUnusedAll(graph, componentPaths) == componentPaths

RECURSIVE findUnused(_, _)
findUnused(graph, componentPaths) ==
    IF Len(componentPaths) = 0 THEN <<>>
    ELSE LET componentPath == Head(componentPaths)
             rest == findUnused(graph, Tail(componentPaths))
         IN  IF ~Has(graph, componentPath) \/ Len(graph[componentPath]) = 0
             THEN <<componentPath>> \o rest
             ELSE rest

\* the importPath of every recorded import: what graph assembly hands to
\* resolveImportPath
RECURSIVE ImportPathsOf(_)
ImportPathsOf(entries) ==
    IF Len(entries) = 0 THEN {}
    ELSE {Head(entries).imports[i].importPath : i \in 1..Len(Head(entries).imports)}
         \cup ImportPathsOf(Tail(entries))

(***************************************************************************)
(* SafetyChecker (safety.ts)                                               *)
(***************************************************************************)
\* SafetyChecker.toPascalCase(str)
safetyToPascalCase(str) == PascalParts(str, <<>>)

extractComponentName(componentPath) ==
    IF PathBasenameExt(componentPath, PathExtname(componentPath)) = sIndex
    THEN safetyToPascalCase(PathBasename(PathDirname(componentPath)))
    ELSE safetyToPascalCase(PathBasenameExt(componentPath, PathExtname(componentPath)))

\* lines 244-251 on the lower-cased file name and directory
IsTestName(fileName, dirPath) ==
    \/ Includes(dirPath, <<"t","e","s","t">>)
    \/ Includes(dirPath, <<"_","_","t","e","s","t","s","_","_">>)
    \/ Includes(dirPath, <<"s","p","e","c">>)
    \/ Includes(fileName, <<".","t","e","s","t",".">>)
    \/ Includes(fileName, <<".","s","p","e","c",".">>)

isTestFile(filePath) ==
    IsTestName(ToLowerCase(PathBasename(filePath)), ToLowerCase(PathDirname(filePath)))

isNonTestFile(filePath) == ~isTestFile(filePath)

\* path.relative(from, to) for absolute normalized paths
PathRelative(from, to) ==
    LET a == NormalizeSegs(Split(from, "/"), <<>>, TRUE)
        b == NormalizeSegs(Split(to, "/"), <<>>, TRUE)
        C == {k \in 0..Min({Len(a), Len(b)}) : SubSeq(a, 1, k) = SubSeq(b, 1, k)}
        k == Max(C)
        ups == [i \in 1..(Len(a) - k) |-> <<".", ".">>]
    IN  Join(ups \o SubSeq(b, k + 1, Len(b)), "/")

getRelativePath(root, filePath) == PathRelative(root, filePath)

\* vscode.workspace.findFiles('**/index.{js,jsx,ts,tsx}', '**/node_modules/**'),
\* as a sequence; when findFiles throws, the catch of findIndexFiles logs the
\* error and the files found so far, none, are returned
findIndexFiles(fs, findFilesThrows) ==
    IF findFilesThrows THEN <<>>
    ELSE PathSeq({f \in FindSourceFiles(fs) : ParsedName(PathBasename(f)) = sIndex})

\* [A-Za-z0-9_], the characters \b separates from the others
IsWordChar(c) == IsUpper(c) \/ IsLower(c) \/ c = "_"
                 \/ c \in {"0", "1", "2", "3", "4", "5", "6", "7", "8", "9"}

\* \b between line[k - 1] and line[k]
WordBoundaryAt(line, k) ==
    LET before == k - 1 >= 1 /\ k - 1 <= Len(line) /\ IsWordChar(line[k - 1])
        after  == k >= 1 /\ k <= Len(line) /\ IsWordChar(line[k])
    IN  before # after

IsSpace(c) == c \in {" ", "\t"}

\* new RegExp(`export\\s+.*\\b${escapeRegex(pattern)}\\b`, 'i').test(line)
ExportRegexTest(line, pattern) ==
    LET l == ToLowerCase(line)
        q == ToLowerCase(pattern)
    IN  \E i \in 1..Len(l) :
          /\ i + 6 <= Len(l)
          /\ SubSeq(l, i, i + 5) = <<"e","x","p","o","r","t">>
          /\ IsSpace(l[i + 6])
          /\ \E j \in (i + 7)..(Len(l) + 1) :
                /\ j + Len(q) - 1 <= Len(l)
                /\ SubSeq(l, j, j + Len(q) - 1) = q
                /\ WordBoundaryAt(l, j)
                /\ WordBoundaryAt(l, j + Len(q))

\* lines 147-172 for one index file whose text is content
IndexFileExports(content, searchPatterns) ==
    /\ Len(content) > 0
    /\ \E k \in 1..Len(searchPatterns) :
          \E i \in 1..Len(content) : Includes(Render(content[i]), searchPatterns[k])
    /\ \E k \in 1..Len(searchPatterns) :
          \E i \in 1..Len(content) : ExportRegexTest(Render(content[i]), searchPatterns[k])

\* searchPatterns = [componentName, fileName]
searchPatterns(componentPath) ==
    << extractComponentName(componentPath),
       PathBasenameExt(componentPath, PathExtname(componentPath)) >>

\* a re-export check that reads the index files of every directory
RECURSIVE checkIndexExportsFastAnyDirectory(_, _, _, _)
checkIndexExportsFastAnyDirectory(cache, fs, componentPath, cachedIndexFiles) ==
    IF Len(cachedIndexFiles) = 0 THEN <<>>
    ELSE (IF IndexFileExports(
                getCachedContentValue(cache, fs, Head(cachedIndexFiles)),
                searchPatterns(componentPath))
          THEN <<Head(cachedIndexFiles)>> ELSE <<>>)
         \o checkIndexExportsFastAnyDirectory(
                getCachedContentCache(cache, fs, Head(cachedIndexFiles)),
                fs, componentPath, Tail(cachedIndexFiles))

\* checkIndexExportsFast: the index files, outside the component's directory,
\* that export the component; every index file it reads goes through the cache
RECURSIVE checkIndexExportsFast(_, _, _, _)
checkIndexExportsFast(cache, fs, componentPath, cachedIndexFiles) ==
    IF Len(cachedIndexFiles) = 0 THEN <<>>
    ELSE IF PathDirname(Head(cachedIndexFiles)) = PathDirname(componentPath)
    THEN checkIndexExportsFast(cache, fs, componentPath, Tail(cachedIndexFiles))
    ELSE (IF IndexFileExports(
                getCachedContentValue(cache, fs, Head(cachedIndexFiles)),
                searchPatterns(componentPath))
          THEN <<Head(cachedIndexFiles)>> ELSE <<>>)
         \o checkIndexExportsFast(
                getCachedContentCache(cache, fs, Head(cachedIndexFiles)),
                fs, componentPath, Tail(cachedIndexFiles))

\* the cache after checkIndexExportsFast has read the index files it reads
RECURSIVE cacheAfterIndexCheck(_, _, _, _)
cacheAfterIndexCheck(cache, fs, componentPath, cachedIndexFiles) ==
    IF Len(cachedIndexFiles) = 0 THEN cache
    ELSE IF PathDirname(Head(cachedIndexFiles)) = PathDirname(componentPath)
    THEN cacheAfterIndexCheck(cache, fs, componentPath, Tail(cachedIndexFiles))
    ELSE cacheAfterIndexCheck(
            getCachedContentCache(cache, fs, Head(cachedIndexFiles)),
            fs, componentPath, Tail(cachedIndexFiles))

\* the distinct elements of seq in first-occurrence order: [...new Set(seq)]
RECURSIVE Dedupe(_, _)
Dedupe(seq, acc) ==
    IF Len(seq) = 0 THEN acc
    ELSE Dedupe(Tail(seq), IF SeqIncludes(acc, Head(seq)) THEN acc ELSE Append(acc, Head(seq)))

\* A warning or recommendation line: its kind, the count it states and the
\* file it names (<<>> when it names none)
Line(kind, count, file) == [kind |-> kind, count |-> count, file |-> file]

isSafeIgnoringDependents(directDependents, indexExports) == Len(indexExports) = 0

\* line 96
isSafeVerdict(directDependents, indexExports) ==
    Len(directDependents) = 0 /\ Len(indexExports) = 0

\* line 53: dependencyGraph[componentPath] || []
directDependentsOf(dependencyGraph, componentPath) ==
    IF Has(dependencyGraph, componentPath) THEN dependencyGraph[componentPath]
    ELSE <<>>

\* lines 63-75: the warning about importing files, at most five of them named
dependentWarnings(root, nonTestFiles) ==
    IF Len(nonTestFiles) = 0 THEN <<>>
    ELSE <<Line("directImports", Len(nonTestFiles), <<>>)>>
         \o [i \in 1..Min({5, Len(nonTestFiles)}) |->
                Line("dependentFile", 0, getRelativePath(root, nonTestFiles[i]))]
         \o (IF Len(nonTestFiles) > 5
             THEN <<Line("more", Len(nonTestFiles) - 5, <<>>)>> ELSE <<>>)

\* lines 63-93: the warnings, in the order they are pushed
safetyWarnings(root, testFiles, nonTestFiles, indexExports) ==
    dependentWarnings(root, nonTestFiles)
    \o (IF Len(testFiles) > 0
        THEN <<Line("testImports", Len(testFiles), <<>>)>> ELSE <<>>)
    \o (IF Len(indexExports) > 0
        THEN <<Line("indexExports", Len(indexExports), <<>>)>> ELSE <<>>)

\* lines 73-92: the recommendations pushed beside the warnings
safetyRecommendations(testFiles, nonTestFiles, indexExports) ==
    (IF Len(nonTestFiles) > 0
     THEN <<Line("removeImports", Len(nonTestFiles), <<>>)>> ELSE <<>>)
    \o (IF Len(testFiles) > 0
        THEN <<Line("updateTests", Len(testFiles), <<>>)>> ELSE <<>>)
    \o (IF Len(indexExports) > 0
        THEN <<Line("removeExports", 0, <<>>)>> ELSE <<>>)

\* lines 98-109: unshift on an unsafe verdict, push on a safe one
finalRecommendations(isSafe, recommendations) ==
    IF ~isSafe THEN <<Line("reviewWarnings", 0, <<>>)>> \o recommendations
    ELSE recommendations \o <<Line("appearsSafe", 0, <<>>)>>

\* lines 57-109 from the dependents and the exporting index files
safetyCheckOf(root, directDependents, indexExports) ==
    [isSafe |-> isSafeVerdict(directDependents, indexExports),
     warnings |->
        safetyWarnings(root, SelectSeq(directDependents, isTestFile),
                       SelectSeq(directDependents, isNonTestFile), indexExports),
     dependents |-> Dedupe(directDependents, <<>>),
     recommendations |->
        finalRecommendations(
            isSafeVerdict(directDependents, indexExports),
            safetyRecommendations(SelectSeq(directDependents, isTestFile),
                                  SelectSeq(directDependents, isNonTestFile),
                                  indexExports))]

\* lines 52-109, the try block of checkSafeDeletion
checkSafeDeletion(cache, fs, root, componentPath, dependencyGraph, cachedIndexFiles) ==
    safetyCheckOf(root, directDependentsOf(dependencyGraph, componentPath),
        checkIndexExportsFast(cache, fs, componentPath, cachedIndexFiles))

(***************************************************************************)
(* The workspaces the model is run on                                      *)
(***************************************************************************)
projectRoot == <<"/","r">>

pA == <<"/","r","/","A",".","t","s","x">>

pB == <<"/","r","/","B",".","t","s","x">>

pFooTsx == <<"/","r","/","F","o","o",".","t","s","x">>

pFooTs == <<"/","r","/","F","o","o",".","t","s">>

pFooIndexTsx == <<"/","r","/","F","o","o","/","i","n","d","e","x",".","t","s","x">>

pLibIndex == <<"/","r","/","l","i","b","/","i","n","d","e","x",".","t","s">>

pTestT == <<"/","r","/","t","e","s","t","/","T",".","t","s","x">>

pRootIndex == <<"/","r","/","i","n","d","e","x",".","t","s">>

sReact == <<"r","e","a","c","t">>

\* the text of a file that defines the component called name
UnitText(name) ==
    << Stmt("importDefault", sReact, <<"R","e","a","c","t">>), Stmt("componentDecl", <<>>, name) >>

\* the module specifiers written in the importing files
LocalSpecifiers ==
    { <<".","/","A">>, <<".","/","A",".","t","s","x">>, <<".","/","A",".","j","s">>, <<".","/","F","o","o">>, <<".","/","F","o","o","/","i","n","d","e","x">>, <<".","/","F","o","o","/","i","n","d","e","x",".","t","s","x">>,
      <<".","/","N","o","p","e">>, <<"/","r","/","A",".","t","s","x">> }

ExternalSpecifiers == { sReact, <<"@","s","c","o","p","e","/","p","k","g">>, <<"f","s">> }

\* the shapes that carry a module specifier
SpecifierShapes ==
    { "importDefault", "importNamed", "importNamespace", "importDefaultNamed",
      "importDefaultNamespace", "dynamicImport", "require", "requireResolve",
      "sideEffectImport", "exportStar" }

\* a file system from a set of <<path, text>> pairs with distinct paths
FsOf(S) == [p \in {x[1] : x \in S} |-> (CHOOSE x \in S : x[1] = p)[2]]

\* B.tsx defines a component and holds the statements stmts
BFile(stmts) == <<pB, UnitText(<<"B">>) \o stmts>>

AFile == <<pA, UnitText(<<"A">>)>>

\* A.tsx beside a B.tsx that holds one statement of any shape and specifier,
\* or two statements that name A.tsx
ExtractionWorkspaces ==
    { FsOf({AFile, BFile(<<Stmt(sh, sp, <<"X">>)>>)}) :
        sh \in SpecifierShapes, sp \in LocalSpecifiers \cup ExternalSpecifiers }
    \cup
    { FsOf({AFile, BFile(<<Stmt(sh1, <<".","/","A">>, <<"X">>), Stmt(sh2, sp2, <<"X">>)>>)}) :
        sh1 \in {"importDefault", "requireResolve"},
        sh2 \in {"importDefault", "dynamicImport", "require"},
        sp2 \in {<<".","/","A">>, <<".","/","A",".","t","s","x">>, sReact} }

\* every combination of the files an import of Foo can reach, beside a B.tsx
\* that imports it under one specifier
ResolutionWorkspaces ==
    { FsOf({BFile(<<Stmt("importDefault", sp, <<"X">>)>>)}
           \cup {<<p, UnitText(<<"F","o","o">>)>> : p \in present}) :
        present \in SUBSET {pFooTsx, pFooTs, pFooIndexTsx},
        sp \in {<<".","/","F","o","o">>, <<".","/","F","o","o","/","i","n","d","e","x">>, <<".","/","F","o","o","/","i","n","d","e","x",".","t","s","x">>, <<".","/","N","o","p","e">>} }

\* A.tsx with an index file in another directory and an importing test file,
\* or with an index file beside it that re-exports it
SafetyWorkspaces ==
    { FsOf({AFile, <<pLibIndex, <<Stmt(sh, sp, <<"A">>)>> >>} \cup extra) :
        sh \in {"exportStar", "comment", "importDefault"},
        sp \in {<<".",".","/","A">>, <<".",".","/","F","o","o">>},
        extra \in { {}, {BFile(<<>>)},
                    {<<pTestT, <<Stmt("importDefault", <<".",".","/","A">>, <<"A">>)>> >>} } }
    \cup
    { FsOf({AFile, <<pRootIndex, <<Stmt("exportStar", <<".","/","A">>, <<"A">>)>> >>}
           \cup extra) :
        extra \in { {},
                    {<<pLibIndex, <<Stmt("exportStar", <<".",".","/","A">>, <<"A">>)>> >>},
                    {<<pLibIndex, <<Stmt("comment", <<".",".","/","A">>, <<"A">>)>> >>} } }

Workspaces == ExtractionWorkspaces \cup ResolutionWorkspaces \cup SafetyWorkspaces

(***************************************************************************)
(* The scan command (scanForUnusedComponents) as a state machine           *)
(***************************************************************************)
\* how many times the scan command is run
MaxRuns == 2

\* how many delete requests the user makes
MaxRemovals == 1

\* the batch width of extractAllImportsParallel, 100 in the source, scaled to
\* the size of the workspaces so that a run has more than one batch
ExtractBatchSize == 3

\* the batch width of processBatch, 50 in the source, scaled likewise
ScanBatchSize == 2

VARIABLES
    files,              \* the file system: path -> text
    fileContentCache,   \* scanner's global cache: path -> text
    pc,                 \* where the scan command stands
    runs,               \* scan commands started
    removals,           \* delete requests the user has answered
    panelComponents,    \* UnusedComponentsPanel._unusedComponents
    answer,             \* the button chosen in the last confirmation dialog
    scanFiles,          \* allFiles of scanReactComponents
    scanStart,          \* the index i of processBatch's loop
    scanPending,        \* the tasks of processBatch's current batch that have not settled
    batchResults,       \* the paths whose settled tasks returned a ComponentInfo
    components,         \* components of processBatch
    classifiedCount,    \* history: how often the task of processBatch has run for each file
    extractedCount,     \* history: how often the extraction task has run for each file
    allComponents,      \* the result of scanReactComponents
    allProjectFiles,    \* analyzer.allProjectFiles
    batchStart,         \* the index i of extractAllImportsParallel's loop
    pending,            \* the tasks of the current batch that have not finished
    fileImports,        \* analyzer.fileImports, entries in insertion order
    dependencyGraph,    \* analyzer.dependencyGraph
    resolveCalls,       \* the specifiers resolveImportPath was called with
    unusedPaths,        \* the result of findUnused
    cachedIndexFiles,   \* safetyChecker.cachedIndexFiles, <<"null">> before the first check
    results,            \* unusedComponentsWithSafety
    overlapPc,          \* where a scan command started during the run stands
    overlapPending      \* the files that command's processBatch has not classified yet

vars ==
    <<files, fileContentCache, pc, runs, removals, panelComponents, answer,
      scanFiles, scanStart, scanPending, batchResults, components,
      classifiedCount, extractedCount, allComponents, allProjectFiles,
      batchStart, pending, fileImports, dependencyGraph, resolveCalls, unusedPaths,
      cachedIndexFiles, results, overlapPc, overlapPending>>

uiVars == <<panelComponents, answer>>

overlapVars == <<overlapPc, overlapPending>>

scanVars == <<scanFiles, scanStart, scanPending, batchResults, components>>

countVars == <<classifiedCount, extractedCount>>

runVars ==
    <<allComponents, allProjectFiles, batchStart, pending, fileImports,
      dependencyGraph, resolveCalls, unusedPaths, cachedIndexFiles, results>>

null == <<"null">>

componentPaths == [i \in 1..Len(allComponents) |-> allComponents[i].filePath]

\* the cache after getCachedContent has been called on every path of S
RECURSIVE CacheAfterReading(_, _, _)
CacheAfterReading(cache, fs, S) ==
    IF S = {} THEN cache
    ELSE LET f == CHOOSE x \in S : TRUE
         IN  CacheAfterReading(getCachedContentCache(cache, fs, f), fs, S \ {f})

Init ==
    /\ files \in Workspaces
    /\ fileContentCache = EmptyMap
    /\ pc = "idle"
    /\ runs = 0
    /\ removals = 0
    /\ panelComponents = <<>>
    /\ answer = "none"
    /\ overlapPc = "idle"
    /\ overlapPending = {}
    /\ scanFiles = <<>>
    /\ scanStart = 0
    /\ scanPending = {}
    /\ batchResults = {}
    /\ components = <<>>
    /\ classifiedCount = EmptyMap
    /\ extractedCount = EmptyMap
    /\ allComponents = <<>>
    /\ allProjectFiles = <<>>
    /\ batchStart = 0
    /\ pending = {}
    /\ fileImports = <<>>
    /\ dependencyGraph = EmptyMap
    /\ resolveCalls = {}
    /\ unusedPaths = <<>>
    /\ cachedIndexFiles = null
    /\ results = <<>>

\* the files processBatch reads: it excludes before it reads
ScannedFiles(fs) == {f \in FindSourceFiles(fs) : ~shouldExcludeFile(f)}

\* the files of S that processBatch classifies as components
ClassifiedIn(cache, fs, S) ==
    {f \in S : IsClassifiedUnit(getCachedContentValue(cache, fs, f), f)}

\* scanReactComponents: the components, sorted by path
scanReactComponents(fs) ==
    SortByFilePath({ComponentInfo(f) :
        f \in ClassifiedIn(CacheAfterReading(EmptyMap, fs, ScannedFiles(fs)),
                           fs, ScannedFiles(fs))})

\* files.slice(i, i + batchSize) of processBatch, as a sequence
ScanBatchSlice(all, i) == SubSeq(all, i + 1, Min({i + ScanBatchSize, Len(all)}))

\* the same slice as the set of its tasks
ScanBatchAt(all, i) ==
    {all[k] : k \in {k \in 1..Len(all) : k > i /\ k <= i + ScanBatchSize}}

\* Phase 1, scanReactComponents up to the first batch of processBatch:
\* clearCache, findFiles, and the tasks of the first batch started.  With no
\* file found the loop is not entered and the empty list is returned.
ScanComponents ==
    /\ pc = "idle"
    /\ runs < MaxRuns
    /\ runs' = runs + 1
    /\ fileContentCache' = EmptyMap
    /\ scanFiles' = PathSeq(FindSourceFiles(files))
    /\ scanStart' = 0
    /\ scanPending' = ScanBatchAt(scanFiles', 0)
    /\ batchResults' = {}
    /\ components' = <<>>
    /\ allComponents' = <<>>
    /\ pc' = IF Len(scanFiles') = 0 THEN "scanned" ELSE "scanning"
    /\ allProjectFiles' = <<>>
    /\ batchStart' = 0
    /\ pending' = {}
    /\ fileImports' = <<>>
    /\ dependencyGraph' = EmptyMap
    /\ resolveCalls' = {}
    /\ unusedPaths' = <<>>
    /\ cachedIndexFiles' = null
    /\ results' = <<>>
    /\ classifiedCount' = [f \in {scanFiles'[k] : k \in 1..Len(scanFiles')} |-> 0]
    /\ extractedCount' = EmptyMap
    /\ UNCHANGED <<files, uiVars, removals, overlapVars>>

\* what the task of processBatch returns for filePath: its path when the
\* file is classified, nothing when the task returns null
TaskResult(cache, fs, filePath) ==
    IF IsClassifiedUnit(getCachedContentValue(cache, fs, filePath), filePath)
    THEN {filePath} ELSE {}

\* components.push(...batchResults.filter(c => c !== null)): Promise.all
\* keeps the results in the order of the batch
PushedAfterBatch(pushed, slice, returned) ==
    LET Returned(f) == f \in returned
    IN  pushed \o [i \in 1..Len(SelectSeq(slice, Returned)) |->
                      ComponentInfo(SelectSeq(slice, Returned)[i])]

\* components.sort((a, b) => a.filePath.localeCompare(b.filePath))
SortedComponents(pushed) == SortByFilePath({pushed[i] : i \in 1..Len(pushed)})

\* the task that leaves rest pending was the last of a batch that is not the
\* last batch of processBatch
MoreScanBatches(rest, start, all) ==
    rest = {} /\ start + ScanBatchSize < Len(all)

\* the task that leaves rest pending was the last task of the last batch
ScanEnds(rest, start, all) ==
    rest = {} /\ start + ScanBatchSize >= Len(all)

\* one task of Promise.all(batch.map(...)) in processBatch: the file is
\* excluded, or read through the cache and classified.  The tasks of a batch
\* settle in any order; when the last one has settled the results of the
\* batch are pushed and the next batch starts, or, after the last batch,
\* scanReactComponents sorts the components and returns them.
ClassifyFile(filePath) ==
    /\ pc = "scanning"
    /\ filePath \in scanPending
    /\ fileContentCache' =
          IF shouldExcludeFile(filePath) THEN fileContentCache
          ELSE getCachedContentCache(fileContentCache, files, filePath)
    /\ batchResults' =
          IF scanPending = {filePath} THEN {}
          ELSE batchResults \cup TaskResult(fileContentCache, files, filePath)
    /\ components' =
          IF scanPending = {filePath}
          THEN PushedAfterBatch(components, ScanBatchSlice(scanFiles, scanStart),
                   batchResults \cup TaskResult(fileContentCache, files, filePath))
          ELSE components
    /\ scanStart' =
          IF MoreScanBatches(scanPending \ {filePath}, scanStart, scanFiles)
          THEN scanStart + ScanBatchSize
          ELSE scanStart
    /\ scanPending' =
          IF MoreScanBatches(scanPending \ {filePath}, scanStart, scanFiles)
          THEN ScanBatchAt(scanFiles, scanStart + ScanBatchSize)
          ELSE scanPending \ {filePath}
    /\ allComponents' =
          IF ScanEnds(scanPending \ {filePath}, scanStart, scanFiles)
          THEN SortedComponents(components')
          ELSE allComponents
    /\ pc' =
          IF ScanEnds(scanPending \ {filePath}, scanStart, scanFiles)
          THEN "scanned" ELSE "scanning"
    /\ classifiedCount' = [classifiedCount EXCEPT ![filePath] = @ + 1]
    /\ UNCHANGED <<files, uiVars, scanFiles, extractedCount, runs, overlapVars, removals, allProjectFiles,
                   batchStart, pending, fileImports, dependencyGraph, resolveCalls,
                   unusedPaths, cachedIndexFiles, results>>

\* lines 119-124: no component found ends the run
NoComponents ==
    /\ pc = "scanned"
    /\ Len(allComponents) = 0
    /\ pc' = "done"
    /\ UNCHANGED <<files, uiVars, scanVars, countVars, fileContentCache, runs, overlapVars, removals, runVars>>

\* the slice of allProjectFiles that starts at index i (0-based)
BatchAt(all, i) ==
    {all[k] : k \in {k \in 1..Len(all) : k > i /\ k <= i + ExtractBatchSize}}

\* getAllProjectFiles
getAllProjectFiles(fs) == PathSeq(FindSourceFiles(fs))

\* Phase 2, analyzeImports up to the first batch: the analyzer is new, its
\* graph and imports are empty, getAllProjectFiles lists the files
AnalyzeStart ==
    /\ pc = "scanned"
    /\ Len(allComponents) > 0
    /\ allProjectFiles' = getAllProjectFiles(files)
    /\ batchStart' = 0
    /\ pending' = BatchAt(allProjectFiles', 0)
    /\ fileImports' = <<>>
    /\ dependencyGraph' = EmptyMap
    /\ resolveCalls' = {}
    /\ pc' = "extracting"
    /\ extractedCount' = [f \in {allProjectFiles'[k] : k \in 1..Len(allProjectFiles')} |-> 0]
    /\ UNCHANGED <<files, uiVars, scanVars, classifiedCount, fileContentCache, runs, overlapVars, removals, allComponents,
                   unusedPaths, cachedIndexFiles, results>>

\* lines 927-931: the imports of a file are recorded when there are any
recordImports(entries, filePath, imports) ==
    IF Len(imports) > 0
    THEN Append(entries, [filePath |-> filePath, imports |-> imports])
    ELSE entries

\* a loop that starts the next batch while one task is still in flight
MoreBatchesBeforeSettled(rest, start, all) ==
    Cardinality(rest) <= 1 /\ start + ExtractBatchSize < Len(all)

\* whether the task that leaves rest pending was the last of a batch that
\* is not the last batch
MoreBatches(rest, start, all) ==
    rest = {} /\ start + ExtractBatchSize < Len(all)

\* ExtractImports reading no text for a file the content cache already holds
ExtractImportsLosingCachedText(filePath) ==
    /\ pc = "extracting"
    /\ filePath \in pending
    /\ fileContentCache' = getCachedContentCache(fileContentCache, files, filePath)
    /\ fileImports' =
          recordImports(fileImports, filePath,
              extractImportsFast(
                  getCachedContentValue(EmptyMap, [p \in DOMAIN files \ DOMAIN fileContentCache |-> files[p]], filePath),
                  filePath))
    /\ batchStart' =
          IF MoreBatches(pending \ {filePath}, batchStart, allProjectFiles)
          THEN batchStart + ExtractBatchSize
          ELSE batchStart
    /\ pending' =
          IF MoreBatches(pending \ {filePath}, batchStart, allProjectFiles)
          THEN BatchAt(allProjectFiles, batchStart + ExtractBatchSize)
          ELSE pending \ {filePath}
    /\ extractedCount' = [extractedCount EXCEPT ![filePath] = @ + 1]
    /\ UNCHANGED <<files, uiVars, scanVars, classifiedCount, pc, runs, overlapVars, removals, allComponents, allProjectFiles,
                   dependencyGraph, resolveCalls, unusedPaths,
                   cachedIndexFiles, results>>

\* one task of Promise.all(batch.map(...)): extractImportsFast on one file.
\* The tasks of a batch finish in any order; when the last one has finished
\* the loop of extractAllImportsParallel starts the next batch.
ExtractImports(filePath) ==
    /\ pc = "extracting"
    /\ filePath \in pending
    /\ fileContentCache' = getCachedContentCache(fileContentCache, files, filePath)
    /\ fileImports' =
          recordImports(fileImports, filePath,
              extractImportsFast(
                  getCachedContentValue(fileContentCache, files, filePath), filePath))
    /\ batchStart' =
          IF MoreBatches(pending \ {filePath}, batchStart, allProjectFiles)
          THEN batchStart + ExtractBatchSize
          ELSE batchStart
    /\ pending' =
          IF MoreBatches(pending \ {filePath}, batchStart, allProjectFiles)
          THEN BatchAt(allProjectFiles, batchStart + ExtractBatchSize)
          ELSE pending \ {filePath}
    /\ extractedCount' = [extractedCount EXCEPT ![filePath] = @ + 1]
    /\ UNCHANGED <<files, uiVars, scanVars, classifiedCount, pc, runs, overlapVars, removals, allComponents, allProjectFiles,
                   dependencyGraph, resolveCalls, unusedPaths,
                   cachedIndexFiles, results>>

\* graph assembly that does not wait for the extraction tasks
BuildGraphEarly ==
    /\ pc = "extracting"
    /\ dependencyGraph' =
          buildDependencyGraph(files, projectRoot, componentPaths, fileImports)
    /\ resolveCalls' = ImportPathsOf(fileImports)
    /\ pc' = "analyzed"
    /\ UNCHANGED <<files, uiVars, scanVars, countVars, fileContentCache, runs, overlapVars, removals, allComponents,
                   allProjectFiles, batchStart, pending, fileImports, unusedPaths,
                   cachedIndexFiles, results>>

\* lines 871-909: graph assembly, after the last batch
BuildGraph ==
    /\ pc = "extracting"
    /\ pending = {}
    /\ dependencyGraph' =
          buildDependencyGraph(files, projectRoot, componentPaths, fileImports)
    /\ resolveCalls' = ImportPathsOf(fileImports)
    /\ pc' = "analyzed"
    /\ UNCHANGED <<files, uiVars, scanVars, countVars, fileContentCache, runs, overlapVars, removals, allComponents,
                   allProjectFiles, batchStart, pending, fileImports, unusedPaths,
                   cachedIndexFiles, results>>

\* Phase 3
FindUnused ==
    /\ pc = "analyzed"
    /\ unusedPaths' = findUnused(dependencyGraph, componentPaths)
    /\ pc' = "found"
    /\ UNCHANGED <<files, uiVars, scanVars, countVars, fileContentCache, runs, overlapVars, removals, allComponents,
                   allProjectFiles, batchStart, pending, fileImports,
                   dependencyGraph, resolveCalls, cachedIndexFiles, results>>

\* lines 152-157: nothing unused ends the run
NoUnused ==
    /\ pc = "found"
    /\ Len(unusedPaths) = 0
    /\ pc' = "done"
    /\ UNCHANGED <<files, uiVars, scanVars, countVars, fileContentCache, runs, overlapVars, removals, runVars>>

\* unusedComponents: allComponents.filter(c => unusedPaths.includes(c.filePath))
unusedComponents ==
    LET IsUnused(c) == SeqIncludes(unusedPaths, c.filePath)
    IN  SelectSeq(allComponents, IsUnused)

\* lines 135-137: findIndexFiles runs on the first check only
indexFilesInUse(findFilesThrows) ==
    IF cachedIndexFiles = null THEN findIndexFiles(files, findFilesThrows)
    ELSE cachedIndexFiles

\* lines 174-182: the component with its verdict
withSafety(component, safetyCheck) ==
    [filePath |-> component.filePath,
     componentName |-> component.componentName,
     isSafe |-> safetyCheck.isSafe,
     safetyCheck |-> safetyCheck]

\* Phase 4, one turn of the loop: checkSafeDeletion on the next unused
\* component.  The enumeration of the index files, made by the first check,
\* succeeds or throws.
CheckSafety ==
    /\ pc = "found"
    /\ Len(results) < Len(unusedComponents)
    /\ \E findFilesThrows \in BOOLEAN :
          cachedIndexFiles' = indexFilesInUse(findFilesThrows)
    /\ fileContentCache' =
          cacheAfterIndexCheck(fileContentCache, files,
              unusedComponents[Len(results) + 1].filePath, cachedIndexFiles')
    /\ results' = Append(results,
          withSafety(unusedComponents[Len(results) + 1],
              checkSafeDeletion(fileContentCache, files, projectRoot,
                  unusedComponents[Len(results) + 1].filePath,
                  dependencyGraph, cachedIndexFiles')))
    /\ UNCHANGED <<files, uiVars, scanVars, countVars, pc, runs, overlapVars, removals, allComponents, allProjectFiles,
                   batchStart, pending, fileImports, dependencyGraph, resolveCalls,
                   unusedPaths>>

\* lines 222-235: the results are shown
ShowResults ==
    /\ pc = "found"
    /\ Len(unusedPaths) > 0
    /\ Len(results) = Len(unusedComponents)
    /\ pc' = "done"
    /\ panelComponents' = results
    /\ UNCHANGED <<files, answer, scanVars, countVars, fileContentCache, runs, overlapVars, removals, runVars>>

(***************************************************************************)
(* The delete paths.  Each shows a modal confirmation dialog and awaits    *)
(* the button: "Delete", "Cancel", or none when the dialog is dismissed.   *)
(* No other command runs while the modal dialog is open.                   *)
(***************************************************************************)
Answers == {"Delete", "Cancel", "dismissed"}

\* the file system without the file at filePath
WithoutFile(fs, filePath) == [p \in DOMAIN fs \ {filePath} |-> fs[p]]

\* this._unusedComponents.filter(c => c.filePath !== componentPath)
WithoutComponent(list, componentPath) ==
    LET Other(c) == c.filePath # componentPath
    IN  SelectSeq(list, Other)

\* this._unusedComponents.find(c => c.filePath === componentPath) finds one
InPanel(list, componentPath) ==
    \E i \in 1..Len(list) : list[i].filePath = componentPath

\* component.isSafe === undefined: the record pushed by the catch of the
\* safety loop has no verdict
IsSafeUnknown(component) == "isSafe" \notin DOMAIN component

\* this._unusedComponents.find(c => c.filePath === componentPath)
FindInPanel(list, componentPath) ==
    list[CHOOSE i \in 1..Len(list) :
            /\ list[i].filePath = componentPath
            /\ \A j \in 1..(i - 1) : list[j].filePath # componentPath]

\* handleDelete without the test of the chosen button
handleDeleteUnconfirmed(componentPath, result) ==
    /\ pc = "done"
    /\ removals < MaxRemovals
    /\ InPanel(panelComponents, componentPath)
    /\ removals' = removals + 1
    /\ answer' = result
    /\ files' = WithoutFile(files, componentPath)
    /\ panelComponents' = WithoutComponent(panelComponents, componentPath)
    /\ UNCHANGED <<fileContentCache, pc, runs, overlapVars, scanVars, countVars, runVars>>

\* a handleDelete that asks for confirmation whatever the verdict
handleDeleteOfUnknown(componentPath, result) ==
    /\ pc = "done"
    /\ removals < MaxRemovals
    /\ InPanel(panelComponents, componentPath)
    /\ removals' = removals + 1
    /\ answer' = result
    /\ IF result = "Delete" /\ IsFile(files, componentPath)
       THEN /\ files' = WithoutFile(files, componentPath)
            /\ panelComponents' = WithoutComponent(panelComponents, componentPath)
       ELSE UNCHANGED <<files, panelComponents>>
    /\ UNCHANGED <<fileContentCache, pc, runs, overlapVars, scanVars, countVars, runVars>>

\* UnusedComponentsPanel.handleDelete: the component is in the list; without
\* a verdict the handler returns before any dialog (lines 146-151); with one,
\* the file is deleted and taken from the list on "Delete", and the list is
\* kept when vscode.workspace.fs.delete throws
handleDelete(componentPath, result) ==
    /\ pc = "done"
    /\ removals < MaxRemovals
    /\ InPanel(panelComponents, componentPath)
    /\ removals' = removals + 1
    /\ answer' = IF IsSafeUnknown(FindInPanel(panelComponents, componentPath))
                 THEN "notAsked" ELSE result
    /\ IF /\ ~IsSafeUnknown(FindInPanel(panelComponents, componentPath))
          /\ result = "Delete"
          /\ IsFile(files, componentPath)
       THEN /\ files' = WithoutFile(files, componentPath)
            /\ panelComponents' = WithoutComponent(panelComponents, componentPath)
       ELSE UNCHANGED <<files, panelComponents>>
    /\ UNCHANGED <<fileContentCache, pc, runs, overlapVars, scanVars, countVars, runVars>>

\* a loop that leaves at the first delete that throws
RECURSIVE BulkDeletedFilesStoppingAtFailure(_, _, _)
BulkDeletedFilesStoppingAtFailure(fs, list, selectedPaths) ==
    IF Len(selectedPaths) = 0 THEN fs
    ELSE IF ~InPanel(list, Head(selectedPaths))
    THEN BulkDeletedFilesStoppingAtFailure(fs, list, Tail(selectedPaths))
    ELSE IF IsFile(fs, Head(selectedPaths))
    THEN BulkDeletedFilesStoppingAtFailure(WithoutFile(fs, Head(selectedPaths)),
                          WithoutComponent(list, Head(selectedPaths)),
                          Tail(selectedPaths))
    ELSE fs

\* the loop of handleBulkDelete on the files: a path outside the list is
\* skipped, a delete that throws is counted as failed
RECURSIVE BulkDeletedFiles(_, _, _)
BulkDeletedFiles(fs, list, selectedPaths) ==
    IF Len(selectedPaths) = 0 THEN fs
    ELSE IF InPanel(list, Head(selectedPaths)) /\ IsFile(fs, Head(selectedPaths))
    THEN BulkDeletedFiles(WithoutFile(fs, Head(selectedPaths)),
                          WithoutComponent(list, Head(selectedPaths)),
                          Tail(selectedPaths))
    ELSE BulkDeletedFiles(fs, list, Tail(selectedPaths))

\* the loop of handleBulkDelete on the list
RECURSIVE BulkDeletedList(_, _, _)
BulkDeletedList(fs, list, selectedPaths) ==
    IF Len(selectedPaths) = 0 THEN list
    ELSE IF InPanel(list, Head(selectedPaths)) /\ IsFile(fs, Head(selectedPaths))
    THEN BulkDeletedList(WithoutFile(fs, Head(selectedPaths)),
                         WithoutComponent(list, Head(selectedPaths)),
                         Tail(selectedPaths))
    ELSE BulkDeletedList(fs, list, Tail(selectedPaths))

\* UnusedComponentsPanel.handleBulkDelete on a non-empty selection
handleBulkDelete(selectedPaths, confirm) ==
    /\ pc = "done"
    /\ removals < MaxRemovals
    /\ Len(selectedPaths) > 0
    /\ removals' = removals + 1
    /\ answer' = confirm
    /\ IF confirm # "Delete"
       THEN UNCHANGED <<files, panelComponents>>
       ELSE /\ files' = BulkDeletedFiles(files, panelComponents, selectedPaths)
            /\ panelComponents' = BulkDeletedList(files, panelComponents, selectedPaths)
    /\ UNCHANGED <<fileContentCache, pc, runs, overlapVars, scanVars, countVars, runVars>>

\* the delete command (deleteComponent): any path; the panel is not refreshed
deleteComponent(componentPath, confirm) ==
    /\ pc = "done"
    /\ removals < MaxRemovals
    /\ removals' = removals + 1
    /\ answer' = confirm
    /\ IF confirm = "Delete" /\ IsFile(files, componentPath)
       THEN files' = WithoutFile(files, componentPath)
       ELSE UNCHANGED files
    /\ UNCHANGED <<fileContentCache, pc, runs, overlapVars, scanVars, countVars, panelComponents, runVars>>

\* the selections the webview can send: the non-empty sets of existing files
Selections == {PathSeq(S) : S \in SUBSET (DOMAIN files) \ {{}}}

\* the scan command is run again
ScanAgain ==
    /\ pc = "done"
    /\ runs < MaxRuns
    /\ pc' = "idle"
    /\ UNCHANGED <<files, uiVars, scanVars, countVars, fileContentCache, runs, overlapVars, removals, runVars>>

Next ==
    \/ ScanComponents
    \/ \E f \in scanPending : ClassifyFile(f)
    \/ NoComponents
    \/ AnalyzeStart
    \/ \E f \in pending : ExtractImports(f)
    \/ BuildGraph
    \/ FindUnused
    \/ NoUnused
    \/ CheckSafety
    \/ ShowResults
    \/ \E f \in DOMAIN files, a \in Answers : handleDelete(f, a)
    \/ \E sel \in Selections, a \in Answers : handleBulkDelete(sel, a)
    \/ \E f \in DOMAIN files, a \in Answers : deleteComponent(f, a)
    \/ ScanAgain

Spec == Init /\ [][Next]_vars

(***************************************************************************)
(* checkSafeDeletion on its own: the component and the graph are inputs    *)
(***************************************************************************)
\* the dependent lists a graph of the inputs holds
DependentLists == { <<>>, <<pB>>, <<pTestT>>, <<pB, pTestT>> }

\* the graphs over a set of component paths; a path may have no entry
GraphsOver(paths) == UNION { [D -> DependentLists] : D \in SUBSET paths }

InitSafety ==
    /\ files \in SafetyWorkspaces
    /\ fileContentCache = EmptyMap
    /\ pc = "found"
    /\ runs = 1
    /\ removals = 0
    /\ panelComponents = <<>>
    /\ answer = "none"
    /\ overlapPc = "idle"
    /\ overlapPending = {}
    /\ scanFiles = <<>>
    /\ scanStart = 0
    /\ scanPending = {}
    /\ batchResults = {}
    /\ components = <<>>
    /\ classifiedCount = EmptyMap
    /\ extractedCount = EmptyMap
    /\ allComponents = scanReactComponents(files)
    /\ allProjectFiles = getAllProjectFiles(files)
    /\ batchStart = 0
    /\ pending = {}
    /\ fileImports = <<>>
    /\ dependencyGraph \in GraphsOver({allComponents[i].filePath : i \in 1..Len(allComponents)})
    /\ resolveCalls = {}
    /\ unusedPaths = componentPaths
    /\ cachedIndexFiles = null
    /\ results = <<>>

NextSafety ==
    \/ CheckSafety
    \/ ShowResults

SpecSafety == InitSafety /\ [][NextSafety]_vars

(***************************************************************************)
(* The content cache on its own: getCachedContent and clearCache are       *)
(* called in any order while the files are written and removed             *)
(***************************************************************************)
\* the texts a file of the cache workspaces holds
CacheTexts == { <<>>, UnitText(<<"A">>), UnitText(<<"B">>) }

\* the paths getCachedContent is called with
CachePaths == {pA, pB}

\* the variables the cache does not touch
nonCacheVars ==
    <<pc, runs, overlapVars, removals, uiVars, scanVars, countVars, runVars>>

InitCache ==
    /\ files \in UNION { [D -> CacheTexts] : D \in SUBSET CachePaths }
    /\ fileContentCache = EmptyMap
    /\ pc = "idle"
    /\ runs = 0
    /\ removals = 0
    /\ panelComponents = <<>>
    /\ answer = "none"
    /\ overlapPc = "idle"
    /\ overlapPending = {}
    /\ scanFiles = <<>>
    /\ scanStart = 0
    /\ scanPending = {}
    /\ batchResults = {}
    /\ components = <<>>
    /\ classifiedCount = EmptyMap
    /\ extractedCount = EmptyMap
    /\ allComponents = <<>>
    /\ allProjectFiles = <<>>
    /\ batchStart = 0
    /\ pending = {}
    /\ fileImports = <<>>
    /\ dependencyGraph = EmptyMap
    /\ resolveCalls = {}
    /\ unusedPaths = <<>>
    /\ cachedIndexFiles = null
    /\ results = <<>>

\* a call getCachedContent(filePath)
getCachedContent(filePath) ==
    /\ fileContentCache' = getCachedContentCache(fileContentCache, files, filePath)
    /\ UNCHANGED <<files, nonCacheVars>>

\* clearCache()
clearCache ==
    /\ fileContentCache' = EmptyMap
    /\ UNCHANGED <<files, nonCacheVars>>

\* the file at filePath is written with text
WriteFile(filePath, text) ==
    /\ files' = Put(files, filePath, text)
    /\ UNCHANGED <<fileContentCache, nonCacheVars>>

\* the file at filePath is removed
RemoveFile(filePath) ==
    /\ filePath \in DOMAIN files
    /\ files' = WithoutFile(files, filePath)
    /\ UNCHANGED <<fileContentCache, nonCacheVars>>

NextCache ==
    \/ \E f \in CachePaths : getCachedContent(f)
    \/ clearCache
    \/ \E f \in CachePaths, text \in CacheTexts : WriteFile(f, text)
    \/ \E f \in CachePaths : RemoveFile(f)

SpecCache == InitCache /\ [][NextCache]_vars

(***************************************************************************)
(* Properties                                                              *)
(***************************************************************************)
\* the specifier shapes the specification lists: static import-from in all
\* its combinations, dynamic import, require and require.resolve
ListedShapes ==
    { "importDefault", "importNamed", "importNamespace", "importDefaultNamed",
      "importDefaultNamespace", "dynamicImport", "require", "requireResolve" }

\* a specifier that begins with "." or "/"
BeginsWithDotOrSlash(spec) == Len(spec) > 0 /\ spec[1] \in {".", "/"}

\* the file f holds a local import specifier that resolves to a path
\* equivalent to unit
ImportsUnit(f, unit) ==
    \E i \in 1..Len(files[f]) :
        /\ files[f][i].shape \in ListedShapes
        /\ BeginsWithDotOrSlash(files[f][i].spec)
        /\ pathsMatch(projectRoot,
                      resolveImportPath(files, projectRoot, files[f][i].spec, f),
                      unit)

\* the enumerated project files
Enumerated == {allProjectFiles[i] : i \in 1..Len(allProjectFiles)}

\* C1: after scan, analyzeImports and findUnused, a unit is in the unused set
\* if and only if no enumerated file holds a local import specifier that
\* resolves to a path equivalent to the unit
UnusedIffNotImported ==
    pc = "found" =>
        \A i \in 1..Len(allComponents) :
            SeqIncludes(unusedPaths, allComponents[i].filePath)
            <=> ~\E f \in Enumerated : ImportsUnit(f, allComponents[i].filePath)

\* C2: when analyzeImports has returned, the graph has an entry for every
\* component path it was given
GraphHasEveryComponent ==
    pc \in {"analyzed", "found", "done"} =>
        \A i \in 1..Len(allComponents) :
            allComponents[i].filePath \in DOMAIN dependencyGraph

\* C2 happens: a returned graph holds an empty entry beside a non-empty one
GraphHasEmptyAndFilledEntry ==
    /\ pc = "analyzed"
    /\ \E p \in DOMAIN dependencyGraph : Len(dependencyGraph[p]) = 0
    /\ \E p \in DOMAIN dependencyGraph : Len(dependencyGraph[p]) > 0

\* the path has no dependent in the graph
HasNoDependent(path) ==
    path \notin DOMAIN dependencyGraph \/ Len(dependencyGraph[path]) = 0

\* C3: findUnused returns the component paths without dependents, in input
\* order, and changes neither the graph nor the recorded imports, reads no
\* file and resolves no path
FindUnusedIsPureFilter ==
    [][(pc = "analyzed" /\ pc' = "found") =>
          /\ unusedPaths' = SelectSeq(componentPaths, HasNoDependent)
          /\ UNCHANGED <<dependencyGraph, fileImports, fileContentCache,
                         resolveCalls, files>>]_vars

\* C3 happens: findUnused has returned some of the components and not all
FindUnusedReturnedSome ==
    /\ pc = "found"
    /\ Len(unusedPaths) > 0
    /\ Len(unusedPaths) < Len(allComponents)

\* C4: no dependent list of the graph holds the same file twice
NoDuplicateDependents ==
    \A p \in DOMAIN dependencyGraph :
        \A i, j \in 1..Len(dependencyGraph[p]) :
            i # j => dependencyGraph[p][i] # dependencyGraph[p][j]

\* the import of the entry resolves to a path equivalent to unit
EntryImportMatches(entry, k, unit) ==
    pathsMatch(projectRoot,
               resolveImportPath(files, projectRoot,
                                 entry.imports[k].importPath, entry.filePath),
               unit)

\* C4 happens: a file reaches one unit through two imports written under
\* different specifier forms, and the graph has been returned
TwoImportsOfOneUnit ==
    /\ pc = "analyzed"
    /\ \E e \in 1..Len(fileImports) :
         \E i, j \in 1..Len(fileImports[e].imports) :
            /\ i < j
            /\ fileImports[e].imports[i].importPath
                  # fileImports[e].imports[j].importPath
            /\ \E p \in DOMAIN dependencyGraph :
                  /\ EntryImportMatches(fileImports[e], i, p)
                  /\ EntryImportMatches(fileImports[e], j, p)
                  /\ SeqIncludes(dependencyGraph[p], fileImports[e].filePath)

\* the graph has been returned by analyzeImports in this run
GraphReturned == pc \in {"analyzed", "found"}

\* file is a dependent of unit in the graph
DependsOn(unit, file) ==
    unit \in DOMAIN dependencyGraph /\ SeqIncludes(dependencyGraph[unit], file)

IsUnit(path) == \E i \in 1..Len(allComponents) : allComponents[i].filePath = path

\* the probe order of the specification: the literal path when it is a file,
\* then the source extensions, then the index files of the directory
ProbeExtFirst(fs, resolvedPath) ==
    IF IsFile(fs, resolvedPath) THEN resolvedPath
    ELSE OrElse(FirstWithExtension(fs, resolvedPath),
                OrElse(FirstIndexIn(fs, resolvedPath), resolvedPath))

\* the physical file a specifier written in file targets: the literal path,
\* else the path with a source extension, else the index file of the directory
TargetOf(file, spec) ==
    ProbeExtFirst(files, PathResolve(PathDirname(file), spec))

\* C5: an import whose specifier targets the file of a unit, written with or
\* without extension or as the unit's directory, makes the importing file a
\* dependent of that unit
EquivalentFormsReachUnit ==
    GraphReturned =>
        \A e \in 1..Len(fileImports) :
            \A k \in 1..Len(fileImports[e].imports) :
                IsUnit(TargetOf(fileImports[e].filePath,
                                fileImports[e].imports[k].importPath))
                => DependsOn(TargetOf(fileImports[e].filePath,
                                      fileImports[e].imports[k].importPath),
                             fileImports[e].filePath)

\* C5 happens: './Foo' is written where Foo is a directory holding index.tsx,
\* and the importer is a dependent of the unit at Foo/index.tsx
DirectoryImportReachedIndexUnit ==
    /\ GraphReturned
    /\ ~IsFile(files, pFooTsx)
    /\ IsUnit(pFooIndexTsx)
    /\ \E e \in 1..Len(fileImports) :
          /\ \E k \in 1..Len(fileImports[e].imports) :
                fileImports[e].imports[k].importPath = <<".", "/", "F", "o", "o">>
          /\ DependsOn(pFooIndexTsx, fileImports[e].filePath)

\* no probed form of the specifier names an existing file
Missed(file, spec) == ~IsFile(files, TargetOf(file, spec))

\* C6: a file all of whose local specifiers miss is a dependent of no unit
MissProducesNoEdge ==
    GraphReturned =>
        \A e \in 1..Len(fileImports) :
            (\A k \in 1..Len(fileImports[e].imports) :
                Missed(fileImports[e].filePath, fileImports[e].imports[k].importPath))
            => \A p \in DOMAIN dependencyGraph :
                  ~SeqIncludes(dependencyGraph[p], fileImports[e].filePath)

\* C7: every recorded Reference and every specifier handed to
\* resolveImportPath begins with "." or "/"
ExternalNeverRecorded ==
    /\ \A e \in 1..Len(fileImports) :
          \A k \in 1..Len(fileImports[e].imports) :
              BeginsWithDotOrSlash(fileImports[e].imports[k].importPath)
    /\ \A spec \in resolveCalls : BeginsWithDotOrSlash(spec)

\* C7 happens: the imports of a file that requires an external module have
\* been extracted and the graph built
ExternalRequireWasScanned ==
    /\ pc = "analyzed"
    /\ \E f \in Enumerated :
          \E i \in 1..Len(files[f]) :
              /\ files[f][i].shape = "require"
              /\ ~BeginsWithDotOrSlash(files[f][i].spec)

\* the statements of a file that hold a local specifier in a listed shape
ListedLocalStatements(f) ==
    {i \in 1..Len(files[f]) :
        files[f][i].shape \in ListedShapes /\ BeginsWithDotOrSlash(files[f][i].spec)}

\* the References recorded for a file
RecordedFor(f) ==
    IF \E e \in 1..Len(fileImports) : fileImports[e].filePath = f
    THEN fileImports[CHOOSE e \in 1..Len(fileImports) :
                        fileImports[e].filePath = f].imports
    ELSE <<>>

\* C8: after extraction every local specifier in one of the four shapes has
\* a Reference, dynamic for import() and require.resolve and static for the
\* other two, and a file has as many References as it has such statements
EveryListedShapeRecorded ==
    GraphReturned =>
        \A f \in Enumerated :
            /\ Len(RecordedFor(f)) = Cardinality(ListedLocalStatements(f))
            /\ \A i \in ListedLocalStatements(f) :
                  \E k \in 1..Len(RecordedFor(f)) :
                      /\ RecordedFor(f)[k].importPath = files[f][i].spec
                      /\ RecordedFor(f)[k].isDynamic
                            = (files[f][i].shape \in {"dynamicImport", "requireResolve"})

\* C9: for a relative specifier resolveImportPath returns the first existing
\* file in the order literal, extensions, directory index, else the
\* normalized literal path
ProbesLiteralThenExtensionsThenIndex ==
    GraphReturned =>
        \A e \in 1..Len(fileImports) :
            \A k \in 1..Len(fileImports[e].imports) :
                ~IsAbsolute(fileImports[e].imports[k].importPath) =>
                    resolveImportPath(files, projectRoot,
                        fileImports[e].imports[k].importPath, fileImports[e].filePath)
                    = normalizePath(projectRoot,
                        TargetOf(fileImports[e].filePath,
                                 fileImports[e].imports[k].importPath))

\* the dependents of path in the graph that are not test files
NonTestDependents(path) ==
    SelectSeq(directDependentsOf(dependencyGraph, path), isNonTestFile)

\* C10: a verdict with isSafe true is given only to a unit without direct
\* non-test dependents
SafeOnlyWithoutDependents ==
    \A r \in 1..Len(results) :
        results[r].isSafe => Len(NonTestDependents(results[r].filePath)) = 0

\* C10 happens: one unit has been given a safe verdict and a unit with a
\* non-test dependent an unsafe one
SafeAndUnsafeVerdictGiven ==
    /\ \E r \in 1..Len(results) : results[r].isSafe
    /\ \E r \in 1..Len(results) :
          /\ ~results[r].isSafe
          /\ Len(NonTestDependents(results[r].filePath)) > 0

\* the index files that re-export unit: they hold export * from a specifier
\* that targets the file of unit
ReExportingIndexFiles(unit) ==
    {f \in DOMAIN files :
        /\ ParsedName(PathBasename(f)) = sIndex
        /\ \E i \in 1..Len(files[f]) :
              /\ files[f][i].shape = "exportStar"
              /\ TargetOf(f, files[f][i].spec) = unit}

\* the line names file f, by its absolute path or relative to the project root
NamesFile(line, f) ==
    line.file = f \/ line.file = getRelativePath(projectRoot, f)

\* C11: a unit without dependents in the graph that an index file re-exports
\* is given a verdict with isSafe false, and a warning of the verdict names
\* that index file
ReExportedUnitWarnedByName ==
    \A r \in 1..Len(results) :
        Len(directDependentsOf(dependencyGraph, results[r].filePath)) = 0 =>
            \A f \in ReExportingIndexFiles(results[r].filePath) :
                /\ ~results[r].isSafe
                /\ \E w \in 1..Len(results[r].safetyCheck.warnings) :
                      NamesFile(results[r].safetyCheck.warnings[w], f)

\* the isSafe half of C11 alone
ReExportedUnitUnsafe ==
    \A r \in 1..Len(results) :
        Len(directDependentsOf(dependencyGraph, results[r].filePath)) = 0 =>
            \A f \in ReExportingIndexFiles(results[r].filePath) : ~results[r].isSafe

\* the isSafe half of C11 for index files outside the unit's directory
ReExportedElsewhereUnsafe ==
    \A r \in 1..Len(results) :
        Len(directDependentsOf(dependencyGraph, results[r].filePath)) = 0 =>
            \A f \in ReExportingIndexFiles(results[r].filePath) :
                PathDirname(f) # PathDirname(results[r].filePath) => ~results[r].isSafe

\* word occurs in line as a whole word
WholeWordIn(line, word) ==
    \E j \in 1..Len(line) :
        /\ j + Len(word) - 1 <= Len(line)
        /\ SubSeq(line, j, j + Len(word) - 1) = word
        /\ WordBoundaryAt(line, j)
        /\ WordBoundaryAt(line, j + Len(word))

\* the file f mentions name as a whole word on a line that is neither an
\* import nor an export statement
MentionsName(f, name) ==
    \E i \in 1..Len(files[f]) :
        /\ files[f][i].shape \in {"comment", "jsx"}
        /\ WholeWordIn(Render(files[f][i]), name)

\* the kinds of warning checkSafeDeletion can push about indirect references
IndirectReferenceKinds == {"indirectReferences", "indirectFile"}

\* C12: the verdict of a unit without dependents in the graph whose display
\* name another project file mentions outside import and export statements
\* contains an indirect-reference warning
MentionedUnitHasIndirectWarning ==
    \A r \in 1..Len(results) :
        ( /\ Len(directDependentsOf(dependencyGraph, results[r].filePath)) = 0
          /\ \E f \in DOMAIN files \ {results[r].filePath} :
                MentionsName(f, results[r].componentName) )
        => \E w \in 1..Len(results[r].safetyCheck.warnings) :
              results[r].safetyCheck.warnings[w].kind \in IndirectReferenceKinds

\* a unit without dependents whose name another file mentions has a verdict
MentionedUnitHasVerdict ==
    \E r \in 1..Len(results) :
        /\ Len(directDependentsOf(dependencyGraph, results[r].filePath)) = 0
        /\ \E f \in DOMAIN files \ {results[r].filePath} :
              MentionsName(f, results[r].componentName)

\* the enumeration of the index files failed in the first check of the run:
\* index files exist and the checker holds none
EnumerationFailed ==
    /\ pc = "found"
    /\ Len(results) > 0
    /\ cachedIndexFiles = <<>>
    /\ Len(findIndexFiles(files, FALSE)) > 0

\* the kind of the warning the catch of checkSafeDeletion pushes
ErrorWarningKinds == {"checkError"}

\* C13: a failure inside a check, here the failure to enumerate the index
\* files, ends in a verdict with isSafe false and a diagnostic warning
FailureYieldsUnsafeVerdict ==
    EnumerationFailed =>
        /\ ~results[1].isSafe
        /\ \E w \in 1..Len(results[1].safetyCheck.warnings) :
              results[1].safetyCheck.warnings[w].kind \in ErrorWarningKinds

\* a failed enumeration never gives isSafe true to a unit that the check
\* without the failure finds unsafe
FailureNeverTurnsUnsafeIntoSafe ==
    EnumerationFailed =>
        (results[1].isSafe =>
            checkSafeDeletion(EmptyMap, files, projectRoot, results[1].filePath,
                              dependencyGraph, findIndexFiles(files, FALSE)).isSafe)

\* the safety phase of the run has ended with the results shown
SafetyPhaseEnded == pc = "done" /\ Len(unusedPaths) > 0

\* every unused unit has exactly one result record, in the order of the units
OneRecordPerUnusedUnit ==
    SafetyPhaseEnded =>
        /\ Len(results) = Len(unusedComponents)
        /\ \A i \in 1..Len(results) : results[i].filePath = unusedComponents[i].filePath

\* C14: in the safety phase every unused unit yields exactly one result
\* record, and a failure while checking a unit gives that unit a verdict with
\* isSafe false and a warning, the remaining units being checked all the same
OneRecordPerUnitAndFailuresUnsafe ==
    /\ OneRecordPerUnusedUnit
    /\ EnumerationFailed =>
          /\ ~results[1].isSafe
          /\ Len(results[1].safetyCheck.warnings) > 0

\* two units were checked in a run whose first check failed to enumerate the
\* index files
FailureThenSecondUnitChecked ==
    /\ Len(results) = 2
    /\ cachedIndexFiles = <<>>
    /\ Len(findIndexFiles(files, FALSE)) > 0

\* C15: a file leaves storage only in the step of a delete path whose dialog
\* was answered "Delete"; a delete path answered otherwise leaves the files
\* and the panel's list as they were; and no step of the scan, the analysis
\* or the safety checks removes a file
DeletionOnlyAfterConfirmation ==
    [][ /\ (files' # files => removals' = removals + 1 /\ answer' = "Delete")
        /\ (removals' # removals /\ answer' # "Delete" =>
               files' = files /\ panelComponents' = panelComponents)
        /\ (removals' = removals => files' = files) ]_vars

\* C15 happens: a confirmed delete has taken the file of a listed unit from
\* storage and from the panel's list
ConfirmedDeleteRemovedUnit ==
    /\ answer = "Delete"
    /\ \E r \in 1..Len(results) :
          /\ ~IsFile(files, results[r].filePath)
          /\ ~InPanel(panelComponents, results[r].filePath)

\* a delete request has been cancelled or dismissed
DeleteRequestDeclined == removals > 0 /\ answer \in {"Cancel", "dismissed"}

\* the paths of a sequence of components
ComponentPathsOf(list) == [i \in 1..Len(list) |-> list[i].filePath]

\* the imports a run extracts from the files of filesSeq, read from storage
\* in the order of the sequence
RECURSIVE ImportsReadFrom(_, _, _)
ImportsReadFrom(fs, filesSeq, entries) ==
    IF Len(filesSeq) = 0 THEN entries
    ELSE ImportsReadFrom(fs, Tail(filesSeq),
            recordImports(entries, Head(filesSeq),
                extractImportsFast(getCachedContentValue(EmptyMap, fs, Head(filesSeq)),
                                   Head(filesSeq))))

\* the graph of a run that starts from nothing on the file set fs
PipelineGraph(fs) ==
    buildDependencyGraph(fs, projectRoot, ComponentPathsOf(scanReactComponents(fs)),
                         ImportsReadFrom(fs, getAllProjectFiles(fs), <<>>))

\* each unit's set of dependents
DependentSets(graph) ==
    [p \in DOMAIN graph |-> {graph[p][i] : i \in 1..Len(graph[p])}]

\* C16: the graph and the unused list of a run are those of a pipeline that
\* starts from nothing on the same file set, so that two runs over an
\* unchanged file set yield the same graph and the same unused set whatever
\* the first run left in the analyzer, the content cache or the safety
\* checker; and the unused list of a later run over the unchanged file set is
\* the list the run before it showed in the panel
RunResultDependsOnFilesOnly ==
    /\ pc = "analyzed" =>
          DependentSets(dependencyGraph) = DependentSets(PipelineGraph(files))
    /\ pc = "found" =>
          LET fresh == PipelineGraph(files)
          IN  /\ DependentSets(dependencyGraph) = DependentSets(fresh)
              /\ unusedPaths
                 = findUnused(fresh, ComponentPathsOf(scanReactComponents(files)))
    /\ pc = "found" /\ runs > 1 /\ removals = 0 /\ Len(panelComponents) > 0 =>
          unusedPaths = ComponentPathsOf(panelComponents)

\* C16 happens: a second run over the unchanged file set has found its unused
\* set, with a graph that holds a dependent, after a first run that checked
\* the safety of a unit
SecondRunOverUnchangedFiles ==
    /\ runs = 2
    /\ removals = 0
    /\ pc = "found"
    /\ Len(unusedPaths) > 0
    /\ Len(panelComponents) > 0
    /\ \E p \in DOMAIN dependencyGraph : Len(dependencyGraph[p]) > 0

\* the elements of a sequence
Elements(seq) == {seq[i] : i \in 1..Len(seq)}

\* C17: whatever order the classification tasks and the extraction tasks of
\* the batches complete in, the units, each unit's set of dependents and the
\* unused set are those of the pipeline that takes the files in the order of
\* their enumeration
ResultIndependentOfTaskOrder ==
    /\ pc \in {"scanned", "extracting", "analyzed", "found"} =>
          Elements(allComponents) = Elements(scanReactComponents(files))
    /\ pc \in {"analyzed", "found"} =>
          LET inOrder == PipelineGraph(files)
          IN  /\ DOMAIN dependencyGraph = DOMAIN inOrder
              /\ \A p \in DOMAIN dependencyGraph :
                    Elements(dependencyGraph[p]) = Elements(inOrder[p])
              /\ pc = "found" =>
                    Elements(unusedPaths)
                    = Elements(findUnused(inOrder, ComponentPathsOf(allComponents)))

\* C17 happens: the extraction tasks of two files that import one unit have
\* completed against the order of the enumeration, and the graph lists the
\* two dependents in that other order
TasksCompletedOutOfOrder ==
    /\ pc = "found"
    /\ \E p \in DOMAIN dependencyGraph :
          /\ Len(dependencyGraph[p]) = 2
          /\ dependencyGraph[p] # PipelineGraph(files)[p]

\* import extraction has completed for every enumerated file
AllExtracted ==
    /\ pending = {}
    /\ \A k \in 1..Len(allProjectFiles) :
          /\ allProjectFiles[k] \in DOMAIN extractedCount
          /\ extractedCount[allProjectFiles[k]] >= 1

\* the graph is the one analyzeImports builds from the imports of every
\* enumerated file
GraphComplete ==
    /\ AllExtracted
    /\ dependencyGraph =
          buildDependencyGraph(files, projectRoot, componentPaths, fileImports)

\* C18: within a run the graph is assembled only when import extraction has
\* completed for every enumerated file, and findUnused and the safety checks
\* run only on the graph analyzeImports has finished building
GraphQueriedOnlyWhenComplete ==
    [][ /\ (dependencyGraph' # dependencyGraph /\ dependencyGraph' # EmptyMap
               => AllExtracted)
        /\ (pc # "analyzed" /\ pc' = "analyzed" => AllExtracted)
        /\ (pc # "found" /\ pc' = "found" => GraphComplete)
        /\ (Len(results') > Len(results) => GraphComplete) ]_vars

\* C18 happens: the safety check of a unit has read the graph of a run whose
\* extraction took more than one batch and whose graph holds a dependent
GraphQueriedAfterTwoBatches ==
    /\ pc = "found"
    /\ Len(results) > 0
    /\ Len(allProjectFiles) > ExtractBatchSize
    /\ \E p \in DOMAIN dependencyGraph : Len(dependencyGraph[p]) > 0

\* the position of file f in the sequence all
PositionIn(all, f) == CHOOSE k \in 1..Len(all) : all[k] = f

\* the number of tasks that must have run for the file at position k when
\* the batch that starts at index start is in flight with the tasks inFlight:
\* one for the files of the batches before and for the settled files of the
\* current batch, none for the others
RunsDue(all, k, start, width, inFlight) ==
    IF k <= start THEN 1
    ELSE IF k <= start + width /\ all[k] \notin inFlight THEN 1
    ELSE 0

\* C19: at most one batch of tasks is in flight, of at most the batch width;
\* a batch starts only when every task of the batch before it has settled;
\* and every enumerated file is processed exactly once
BoundedFanOut ==
    /\ Cardinality(scanPending) <= ScanBatchSize
    /\ Cardinality(pending) <= ExtractBatchSize
    /\ scanPending \subseteq ScanBatchAt(scanFiles, scanStart)
    /\ pending \subseteq BatchAt(allProjectFiles, batchStart)
    /\ pc = "scanning" =>
          \A k \in 1..Len(scanFiles) :
              classifiedCount[scanFiles[k]]
              = RunsDue(scanFiles, k, scanStart, ScanBatchSize, scanPending)
    /\ pc \in {"scanned", "extracting", "analyzed", "found"} =>
          \A k \in 1..Len(scanFiles) : classifiedCount[scanFiles[k]] = 1
    /\ pc = "extracting" =>
          \A k \in 1..Len(allProjectFiles) :
              extractedCount[allProjectFiles[k]]
              = RunsDue(allProjectFiles, k, batchStart, ExtractBatchSize, pending)
    /\ pc \in {"analyzed", "found"} =>
          \A k \in 1..Len(allProjectFiles) : extractedCount[allProjectFiles[k]] = 1

\* C19 happens: the second batch of the extraction is in flight after the
\* three tasks of the first have settled, in a run whose classification took
\* two batches as well
SecondBatchInFlight ==
    /\ pc = "extracting"
    /\ batchStart = ExtractBatchSize
    /\ pending # {}
    /\ scanStart = ScanBatchSize
    /\ \A k \in 1..ExtractBatchSize : extractedCount[allProjectFiles[k]] = 1

\* C20: the content cache is write-once-per-key.  An entry appears only when
\* getCachedContent reads its file, and holds the text read; a call for a
\* path that has an entry returns the entry, whatever the file holds now;
\* an entry is never replaced by other text; and entries leave the cache
\* only together, by clearCache
CacheWriteOncePerKey ==
    [][ /\ \A p \in DOMAIN fileContentCache' \ DOMAIN fileContentCache :
              IsFile(files, p) /\ fileContentCache'[p] = files[p]
        /\ \A p \in DOMAIN fileContentCache :
              getCachedContentValue(fileContentCache, files, p) = fileContentCache[p]
        /\ \A p \in DOMAIN fileContentCache :
              p \in DOMAIN fileContentCache' => fileContentCache'[p] = fileContentCache[p]
        /\ \A p \in DOMAIN fileContentCache :
              p \notin DOMAIN fileContentCache' => fileContentCache' = EmptyMap ]_vars

\* C20 happens: a file was read into the cache and written afterwards, and
\* the cache still holds the text first read beside the entry of a second file
CachedTextOutlivesWrite ==
    /\ DOMAIN fileContentCache = CachePaths
    /\ IsFile(files, pA)
    /\ fileContentCache[pA] # files[pA]
    /\ ~IsFile(files, pB)

\* ---------------------------------------------------------------------------
\* Two scan commands in flight.  The command handler of part_001:35-40 is
\* async and nothing serialises two invocations: a second command can be
\* dispatched whenever the first is suspended in a file-system await.  The
\* first run is followed through its scan and analysis phases with the
\* actions above; the second one through its scan phase, where it clears
\* and fills the module-level fileContentCache of part_000:285.

OverlapWorkspaces ==
    { FsOf({AFile, BFile(<<Stmt(sh, <<".","/","A">>, <<"A">>)>>)} \cup extra) :
        sh \in {"importDefault", "require", "comment"},
        extra \in { {}, {<<pFooTsx, UnitText(<<"F","o","o">>)>>} } }
    \cup { FsOf({<<pLibIndex, <<Stmt("comment", <<>>, <<"A">>)>> >>}) }

InitOverlap ==
    /\ files \in OverlapWorkspaces
    /\ fileContentCache = EmptyMap
    /\ pc = "idle"
    /\ runs = 0
    /\ removals = 0
    /\ panelComponents = <<>>
    /\ answer = "none"
    /\ overlapPc = "idle"
    /\ overlapPending = {}
    /\ scanFiles = <<>>
    /\ scanStart = 0
    /\ scanPending = {}
    /\ batchResults = {}
    /\ components = <<>>
    /\ classifiedCount = EmptyMap
    /\ extractedCount = EmptyMap
    /\ allComponents = <<>>
    /\ allProjectFiles = <<>>
    /\ batchStart = 0
    /\ pending = {}
    /\ fileImports = <<>>
    /\ dependencyGraph = EmptyMap
    /\ resolveCalls = {}
    /\ unusedPaths = <<>>
    /\ cachedIndexFiles = null
    /\ results = <<>>

\* the positions at which the first run still has cache reads ahead of it
ReadingPositions == {"scanning", "scanned", "extracting"}

\* the second command is dispatched while the first run is suspended in a
\* findFiles await (scanReactComponents line 470, getAllProjectFiles line
\* 866): scanReactComponents runs up to its own findFiles, and line 454
\* clears the one cache there is
OverlapScanStarts ==
    /\ pc \in ReadingPositions
    /\ overlapPc = "idle"
    /\ fileContentCache' = EmptyMap
    /\ overlapPc' = "enumerating"
    /\ overlapPending' = {}
    /\ UNCHANGED <<files, pc, runs, removals, uiVars, scanVars, countVars, runVars>>

\* findFiles of the second command returns and processBatch starts
OverlapEnumerated ==
    /\ overlapPc = "enumerating"
    /\ overlapPending' = FindSourceFiles(files)
    /\ overlapPc' = IF overlapPending' = {} THEN "ended" ELSE "scanning"
    /\ UNCHANGED <<files, fileContentCache, pc, runs, removals, uiVars, scanVars,
                   countVars, runVars>>

\* one task of the second command's processBatch: the file is read through
\* the same cache
OverlapClassifyFile(filePath) ==
    /\ overlapPc = "scanning"
    /\ filePath \in overlapPending
    /\ fileContentCache' =
          IF shouldExcludeFile(filePath) THEN fileContentCache
          ELSE getCachedContentCache(fileContentCache, files, filePath)
    /\ overlapPending' = overlapPending \ {filePath}
    /\ overlapPc' = IF overlapPending' = {} THEN "ended" ELSE "scanning"
    /\ UNCHANGED <<files, pc, runs, removals, uiVars, scanVars, countVars, runVars>>

NextOverlap ==
    \/ ScanComponents
    \/ (\E f \in scanPending : ClassifyFile(f))
    \/ NoComponents
    \/ AnalyzeStart
    \/ (\E f \in pending : ExtractImports(f))
    \/ BuildGraph
    \/ OverlapScanStarts
    \/ OverlapEnumerated
    \/ (\E f \in overlapPending : OverlapClassifyFile(f))

SpecOverlap == InitOverlap /\ [][NextOverlap]_vars

\* the second command took the step
OverlapStep == overlapPc' /= overlapPc \/ overlapPending' /= overlapPending

\* C21: a run clears the Content Cache when it starts, before it reads any
\* file, and two runs in flight at once do not share a cache: while the
\* first run still has reads ahead of it, no step of a run started meanwhile
\* clears or fills the cache the first run reads, and while that second run
\* is classifying, no step of the first run fills the cache it reads.
OverlappingRunsKeepOwnCache ==
    [][ /\ (runs' /= runs => fileContentCache' = EmptyMap)
        /\ (pc \in ReadingPositions /\ OverlapStep
               => fileContentCache' = fileContentCache)
        /\ (overlapPc \in {"enumerating", "scanning"} /\ ~OverlapStep
               => fileContentCache' = fileContentCache) ]_vars

\* the half of C21 about one run after another: the run starts from an
\* empty cache
FreshRunClearsCache ==
    [][runs' /= runs => fileContentCache' = EmptyMap]_vars

\* ---------------------------------------------------------------------------
\* A run over a workspace that holds a file the process cannot read.

\* no scan command has run yet
RunNotStarted ==
    /\ fileContentCache = EmptyMap
    /\ pc = "idle"
    /\ runs = 0
    /\ removals = 0
    /\ panelComponents = <<>>
    /\ answer = "none"
    /\ overlapPc = "idle"
    /\ overlapPending = {}
    /\ scanFiles = <<>>
    /\ scanStart = 0
    /\ scanPending = {}
    /\ batchResults = {}
    /\ components = <<>>
    /\ classifiedCount = EmptyMap
    /\ extractedCount = EmptyMap
    /\ allComponents = <<>>
    /\ allProjectFiles = <<>>
    /\ batchStart = 0
    /\ pending = {}
    /\ fileImports = <<>>
    /\ dependencyGraph = EmptyMap
    /\ resolveCalls = {}
    /\ unusedPaths = <<>>
    /\ cachedIndexFiles = null
    /\ results = <<>>

\* L.tsx would be a component that imports A.tsx, if it could be read
LockedFile ==
    <<pLocked, UnitText(<<"L">>) \o <<Stmt("importDefault", <<".","/","A">>, <<"A">>)>> >>

\* L.tsx alone, or beside A.tsx and a B.tsx that imports A.tsx or L.tsx in
\* one of three shapes, with or without a component L/index.tsx that the
\* import of './L' would reach if L.tsx did not exist
UnreadableWorkspaces ==
    { FsOf({LockedFile}) }
    \cup
    { FsOf({LockedFile, AFile, BFile(<<Stmt(sh, sp, <<"X">>)>>)} \cup extra) :
        sh \in {"importDefault", "require", "dynamicImport"},
        sp \in {<<".","/","A">>, <<".","/","L">>, <<".","/","L",".","t","s","x">>},
        extra \in { {}, {<<pLockedIndex, UnitText(<<"L">>)>>} } }

InitUnreadable == files \in UnreadableWorkspaces /\ RunNotStarted

NextUnreadable ==
    \/ ScanComponents
    \/ (\E f \in scanPending : ClassifyFile(f))
    \/ NoComponents
    \/ AnalyzeStart
    \/ (\E f \in pending : ExtractImports(f))
    \/ BuildGraph

SpecUnreadable == InitUnreadable /\ [][NextUnreadable]_vars

\* the file set without the files that cannot be read
ReadableFiles(fs) == [p \in DOMAIN fs \ UnreadablePaths |-> fs[p]]

\* the files the run recorded imports for
FilesWithImports == {fileImports[i].filePath : i \in 1..Len(fileImports)}

\* C22: a file that cannot be read is no content: getCachedContent gives the
\* empty text for it and caches nothing, it yields no imports and is not
\* classified, and the run goes on: the components and the graph of the run
\* are those of a run over the same workspace without the unreadable file.
UnreadableFileIsNoContent ==
    /\ \A p \in UnreadablePaths \cap DOMAIN files :
          /\ getCachedContentValue(fileContentCache, files, p) = <<>>
          /\ p \notin DOMAIN fileContentCache
          /\ p \notin FilesWithImports
          /\ \A i \in 1..Len(allComponents) : allComponents[i].filePath # p
    /\ pc \in {"scanned", "extracting", "analyzed", "done"} =>
          allComponents = scanReactComponents(ReadableFiles(files))
    /\ pc = "analyzed" =>
          DependentSets(dependencyGraph) =
             DependentSets(PipelineGraph(ReadableFiles(files)))

\* a run classified and extracted the unreadable file and finished its graph
\* with a component in it
UnreadableFileWasProcessed ==
    /\ pc = "analyzed"
    /\ pLocked \in DOMAIN files
    /\ classifiedCount[pLocked] = 1
    /\ extractedCount[pLocked] = 1
    /\ \E p \in DOMAIN dependencyGraph : Len(dependencyGraph[p]) > 0

\* ---------------------------------------------------------------------------
\* A run in which the enumeration of the workspace fails.

\* scanReactComponents when findFiles (line 470) rejects: the catch of lines
\* 486-491 reports the error and returns the empty list
ScanFindFilesThrows ==
    /\ pc = "idle"
    /\ runs < MaxRuns
    /\ runs' = runs + 1
    /\ fileContentCache' = EmptyMap
    /\ scanFiles' = <<>>
    /\ scanStart' = 0
    /\ scanPending' = {}
    /\ batchResults' = {}
    /\ components' = <<>>
    /\ allComponents' = <<>>
    /\ pc' = "scanned"
    /\ allProjectFiles' = <<>>
    /\ batchStart' = 0
    /\ pending' = {}
    /\ fileImports' = <<>>
    /\ dependencyGraph' = EmptyMap
    /\ resolveCalls' = {}
    /\ unusedPaths' = <<>>
    /\ cachedIndexFiles' = null
    /\ results' = <<>>
    /\ classifiedCount' = EmptyMap
    /\ extractedCount' = EmptyMap
    /\ UNCHANGED <<files, uiVars, removals, overlapVars>>

\* analyzeImports when findFiles (line 1039) rejects: getAllProjectFiles
\* catches (lines 1049-1051) and returns the files pushed so far, none with
\* one workspace folder, and extractAllImportsParallel has no batch to run
AnalyzeFindFilesThrows ==
    /\ pc = "scanned"
    /\ Len(allComponents) > 0
    /\ allProjectFiles' = <<>>
    /\ batchStart' = 0
    /\ pending' = {}
    /\ fileImports' = <<>>
    /\ dependencyGraph' = EmptyMap
    /\ resolveCalls' = {}
    /\ pc' = "extracting"
    /\ extractedCount' = EmptyMap
    /\ UNCHANGED <<files, uiVars, scanVars, classifiedCount, fileContentCache, runs,
                   overlapVars, removals, allComponents, unusedPaths, cachedIndexFiles,
                   results>>

InitFailing == files \in SafetyWorkspaces /\ RunNotStarted

NextFailing ==
    \/ ScanComponents
    \/ ScanFindFilesThrows
    \/ (\E f \in scanPending : ClassifyFile(f))
    \/ NoComponents
    \/ AnalyzeStart
    \/ AnalyzeFindFilesThrows
    \/ (\E f \in pending : ExtractImports(f))
    \/ BuildGraph
    \/ FindUnused
    \/ NoUnused
    \/ CheckSafety
    \/ ShowResults

SpecFailing == InitFailing /\ [][NextFailing]_vars

\* the paths of the components the scan returned
ScannedPaths == {allComponents[i].filePath : i \in 1..Len(allComponents)}

\* C23: no operation of the core ends a run by throwing; each returns a
\* best-effort result when a step inside it fails: the scan returns an empty
\* or partial list of the components of the workspace, the analysis a graph
\* with an entry for every component and no dependent the workspace does not
\* have, and a safety check whose enumeration of the index files failed
\* returns a verdict with isSafe false.
OperationsReturnBestEffort ==
    /\ pc \in {"scanned", "extracting", "analyzed", "found", "done"} =>
          ScannedPaths \subseteq
             {c.filePath : c \in Elements(scanReactComponents(files))}
    /\ pc \in {"analyzed", "found"} =>
          /\ DOMAIN dependencyGraph = ScannedPaths
          /\ \A p \in DOMAIN dependencyGraph :
                DependentSets(dependencyGraph)[p] \subseteq
                   DependentSets(PipelineGraph(files))[p]
    /\ EnumerationFailed => \A r \in 1..Len(results) : ~results[r].isSafe

\* the two halves of C23 that hold: the scan and the analysis return
\* best-effort results when findFiles fails
ScanAndAnalysisReturnBestEffort ==
    /\ pc \in {"scanned", "extracting", "analyzed", "found", "done"} =>
          ScannedPaths \subseteq
             {c.filePath : c \in Elements(scanReactComponents(files))}
    /\ pc \in {"analyzed", "found"} =>
          /\ DOMAIN dependencyGraph = ScannedPaths
          /\ \A p \in DOMAIN dependencyGraph :
                DependentSets(dependencyGraph)[p] \subseteq
                   DependentSets(PipelineGraph(files))[p]

\* ---------------------------------------------------------------------------
\* A scan over a workspace that holds a file with an excluded name.

\* paths of files whose text is that of a component: test and spec files, a
\* declaration file, the bootstrap files of a generated application, files
\* below a vendoring directory, and Tested.tsx, which no exclusion names
ExclusionCandidates ==
    { <<"/","r","/","A",".","t","e","s","t",".","t","s","x">>,
      <<"/","r","/","A",".","s","p","e","c",".","t","s">>,
      <<"/","r","/","A",".","d",".","t","s">>,
      <<"/","r","/","s","e","t","u","p","T","e","s","t","s",".","t","s","x">>,
      <<"/","r","/","r","e","p","o","r","t","W","e","b","V","i","t","a","l","s",".","j","s">>,
      <<"/","r","/","s","e","r","v","i","c","e","W","o","r","k","e","r",".","j","s","x">>,
      <<"/","r","/","A",".","T","E","S","T",".","t","s","x">>,
      <<"/","r","/","n","o","d","e","_","m","o","d","u","l","e","s","/","p","/","A",".","t","s","x">>,
      <<"/","r","/","m","y","_","n","o","d","e","_","m","o","d","u","l","e","s","/","A",".","t","s","x">>,
      <<"/","r","/","T","e","s","t","e","d",".","t","s","x">> }

\* one candidate, alone or beside A.tsx and a B.tsx that imports A.tsx
ExclusionWorkspaces ==
    { FsOf({<<p, UnitText(<<"T">>)>>} \cup extra) :
        p \in ExclusionCandidates,
        extra \in { {}, {AFile},
                    {AFile, BFile(<<Stmt("importDefault", <<".","/","A">>, <<"A">>)>>)} } }

InitExclusion == files \in ExclusionWorkspaces /\ RunNotStarted

NextExclusion ==
    \/ ScanComponents
    \/ (\E f \in scanPending : ClassifyFile(f))
    \/ NoComponents

SpecExclusion == InitExclusion /\ [][NextExclusion]_vars

\* the fragments that mark a file name as a test, a spec, a type declaration
\* or a bootstrap file
ExcludedNameFragments ==
    { <<".","t","e","s","t",".">>,
      <<".","s","p","e","c",".">>,
      <<".","d",".","t","s">>,
      <<"s","e","t","u","p","t","e","s","t">>,
      <<"r","e","p","o","r","t","w","e","b","v","i","t","a","l","s">>,
      <<"s","e","r","v","i","c","e","w","o","r","k","e","r">> }

\* the path has a node_modules segment, or the file name holds a fragment
HasExcludedName(filePath) ==
    \/ \E i \in 1..Len(Split(filePath, "/")) : Split(filePath, "/")[i] = sNodeModules
    \/ \E fragment \in ExcludedNameFragments :
          Includes(ToLowerCase(PathBasename(filePath)), fragment)

\* C24: a file below a node_modules directory, or whose name holds a test or
\* spec marker, the .d.ts suffix or the name of a bootstrap file, is in no
\* list of components the scan builds or returns, whatever its text.
ExcludedNamesNeverScanned ==
    /\ \A i \in 1..Len(allComponents) : ~HasExcludedName(allComponents[i].filePath)
    /\ \A i \in 1..Len(components) : ~HasExcludedName(components[i].filePath)
    /\ \A f \in batchResults : ~HasExcludedName(f)

\* a scan has ended with a component found, and a file with an excluded
\* name whose text is that of a component went through processBatch
ExcludedComponentTextWasScanned ==
    /\ pc = "scanned"
    /\ Len(allComponents) > 0
    /\ \E f \in DOMAIN files :
          /\ HasExcludedName(f)
          /\ isReactComponentContent(files[f])
          /\ f \in DOMAIN classifiedCount
          /\ classifiedCount[f] = 1

\* ---------------------------------------------------------------------------
\* A scan over components whose file names are written in several styles.

NamingCandidates ==
    { <<"/","r","/","u","s","e","r","-","p","r","o","f","i","l","e",".","j","s","x">>,
      <<"/","r","/","u","s","e","r","P","r","o","f","i","l","e",".","t","s","x">>,
      <<"/","r","/","u","s","e","r","_","p","r","o","f","i","l","e",".","j","s">>,
      <<"/","r","/","i","n","d","e","x",".","t","s","x">>,
      <<"/","r","/","F","o","o","/","i","n","d","e","x",".","t","s","x">>,
      <<"/","r","/","u","s","e","r"," ","p","r","o","f","i","l","e",".","t","s","x">>,
      <<"/","r","/","m","y","-","B","i","g","_","c","o","m","p",".","t","s","x">>,
      <<"/","r","/","a","-","-","b",".","t","s","x">>,
      <<"/","r","/","A","B","c",".","t","s","x">>,
      <<"/","r","/","_","x",".","t","s">> }

\* one or two components
NamingWorkspaces ==
    { FsOf({<<p, UnitText(<<"T">>)>>, <<q, UnitText(<<"T">>)>>}) :
        p \in NamingCandidates, q \in NamingCandidates }

InitNaming == files \in NamingWorkspaces /\ RunNotStarted

NextNaming ==
    \/ ScanComponents
    \/ (\E f \in scanPending : ClassifyFile(f))

SpecNaming == InitNaming /\ [][NextNaming]_vars

\* the base name up to its last dot, the whole of it when the only dot is
\* the first character
WithoutExtension(fileName) ==
    IF LastIndexOf(fileName, ".") > 1
    THEN SubSeq(fileName, 1, LastIndexOf(fileName, ".") - 1)
    ELSE fileName

\* character i of name begins a token: it is the first character, follows a
\* separator, or is a capital letter
BeginsToken(name, i) ==
    i = 1 \/ name[i - 1] \in {"-", "_", " "} \/ IsUpper(name[i])

\* the tokens of name, each with its first letter in upper case and the rest
\* in lower case, concatenated: the separators dropped, every character
\* that begins a token in upper case, every other one in lower case
RECURSIVE TokensJoined(_, _)
TokensJoined(name, i) ==
    IF i > Len(name) THEN <<>>
    ELSE IF name[i] \in {"-", "_", " "} THEN TokensJoined(name, i + 1)
    ELSE IF BeginsToken(name, i) THEN <<ToUpperChar(name[i])>> \o TokensJoined(name, i + 1)
    ELSE <<ToLowerChar(name[i])>> \o TokensJoined(name, i + 1)

\* the display name the claim describes
DerivedName(fileName) ==
    IF WithoutExtension(fileName) = sIndex THEN <<"I","n","d","e","x">>
    ELSE TokensJoined(WithoutExtension(fileName), 1)

IndexFilesElsewhere(list, componentPath) ==
    LET Elsewhere(f) == PathDirname(f) # PathDirname(componentPath)
    IN  SelectSeq(list, Elsewhere)

\* the file set without the index files beside componentPath
WithoutIndexBeside(fs, componentPath) ==
    [p \in {q \in DOMAIN fs :
               ~(/\ PathDirname(q) = PathDirname(componentPath)
                 /\ q \in Elements(findIndexFiles(fs, FALSE)))} |-> fs[p]]

\* C26: the re-export check looks only at index files in a directory other
\* than the unit's own: the result of a check is the result of the same
\* check without the index files beside the unit, and a unit without
\* dependents whose index files all lie beside it is safe and has no
\* re-export warning, whatever those index files export.
SameDirectoryIndexNeverCounts ==
    \A r \in 1..Len(results) :
        /\ results[r].safetyCheck =
              checkSafeDeletion(EmptyMap, WithoutIndexBeside(files, results[r].filePath),
                  projectRoot, results[r].filePath, dependencyGraph,
                  IndexFilesElsewhere(cachedIndexFiles, results[r].filePath))
        /\ ( /\ Len(directDependentsOf(dependencyGraph, results[r].filePath)) = 0
             /\ Len(IndexFilesElsewhere(cachedIndexFiles, results[r].filePath)) = 0 )
           => /\ results[r].isSafe
              /\ \A w \in 1..Len(results[r].safetyCheck.warnings) :
                    results[r].safetyCheck.warnings[w].kind # "indexExports"

\* a unit was found safe although the index file beside it, which the
\* checker had enumerated, re-exports it
ReExportedBesideYetSafe ==
    \E r \in 1..Len(results) :
        /\ results[r].isSafe
        /\ pRootIndex \in Elements(cachedIndexFiles)
        /\ PathDirname(pRootIndex) = PathDirname(results[r].filePath)
        /\ pRootIndex \in DOMAIN files
        /\ IndexFileExports(files[pRootIndex], searchPatterns(results[r].filePath))

\* ---------------------------------------------------------------------------
\* the components that the import importPath written in filePath was
\* attributed to: pathsMatch holds and filePath is among their dependents
UnitsAttributed(importPath, filePath) ==
    {p \in ScannedPaths :
        /\ pathsMatch(projectRoot,
               resolveImportPath(files, projectRoot, importPath, filePath), p)
        /\ Has(dependencyGraph, p)
        /\ SeqIncludes(dependencyGraph[p], filePath)}

\* C27: one import statement is attributed to at most one unit: of the
\* distinct component paths of a run, at most one satisfies pathsMatch with
\* the path the import resolves to and gets the importing file as dependent.
ImportAttributedToOneUnit ==
    pc = "analyzed" =>
        \A e \in 1..Len(fileImports) :
            \A k \in 1..Len(fileImports[e].imports) :
                Cardinality(UnitsAttributed(fileImports[e].imports[k].importPath,
                                            fileImports[e].filePath)) <= 1

\* ---------------------------------------------------------------------------
\* A run over the workspaces in which an import of Foo can reach Foo.ts,
\* Foo.tsx and Foo/index.tsx.
InitMatching == files \in ResolutionWorkspaces /\ RunNotStarted

NextMatching ==
    \/ ScanComponents
    \/ (\E f \in scanPending : ClassifyFile(f))
    \/ AnalyzeStart
    \/ (\E f \in pending : ExtractImports(f))
    \/ BuildGraph

SpecMatching == InitMatching /\ [][NextMatching]_vars

\* the specifiers of entry e of fileImports and the paths they resolve to
PathsOfEntry(e) ==
    UNION { { fileImports[e].imports[k].importPath,
              resolveImportPath(files, projectRoot,
                  fileImports[e].imports[k].importPath, fileImports[e].filePath) } :
            k \in 1..Len(fileImports[e].imports) }

\* the paths a run hands to pathsMatch: the component paths, the specifiers
\* as written and the paths they resolve to
ComparedPaths ==
    ScannedPaths \cup UNION { PathsOfEntry(e) : e \in 1..Len(fileImports) }

\* C28: pathsMatch is reflexive and symmetric on the paths of a run, so the
\* match of a resolved import against a unit path does not depend on the
\* order of the two arguments.
PathsMatchReflexiveSymmetric ==
    \A p \in ComparedPaths :
        /\ pathsMatch(projectRoot, p, p)
        /\ \A q \in ComparedPaths :
              pathsMatch(projectRoot, p, q) = pathsMatch(projectRoot, q, p)

\* the graph holds an edge whose import resolved to an index file that
\* matches the unit path of the directory's name in either order
IndexFileMatchedEitherWay ==
    /\ pc = "analyzed"
    /\ \E p \in ComparedPaths, q \in ScannedPaths :
          /\ PathBasenameExt(p, PathExtname(p)) = sIndex
          /\ PathDirname(p) = StripSourceExt(q)
          /\ pathsMatch(projectRoot, p, q)
          /\ pathsMatch(projectRoot, q, p)
          /\ Len(dependencyGraph[q]) > 0

\* ---------------------------------------------------------------------------
\* The panel after a run: its list can hold components without a verdict,
\* and files of the list can have left storage since the run.

\* lines 208-219 of the safety loop: checkSafeDeletion throws, before the
\* index files are enumerated, and the component is pushed without verdict
CheckSafetyThrows ==
    /\ pc = "found"
    /\ Len(results) < Len(unusedComponents)
    /\ results' = Append(results,
          [filePath |-> unusedComponents[Len(results) + 1].filePath,
           componentName |-> unusedComponents[Len(results) + 1].componentName])
    /\ UNCHANGED <<files, uiVars, scanVars, countVars, pc, runs, overlapVars, removals,
                   fileContentCache, allComponents, allProjectFiles, batchStart, pending,
                   fileImports, dependencyGraph, resolveCalls, unusedPaths,
                   cachedIndexFiles>>

\* a file leaves storage without the panel: the delete command of the
\* extension, which does not refresh the panel, or any other program
FileRemovedOutside(filePath) ==
    /\ pc = "done"
    /\ removals = 0
    /\ IsFile(files, filePath)
    /\ files' = WithoutFile(files, filePath)
    /\ UNCHANGED <<fileContentCache, pc, runs, removals, overlapVars, uiVars, scanVars,
                   countVars, runVars>>

\* the paths a message of the webview can name: those of the list and those
\* of the files
PanelPaths == DOMAIN files \cup Elements(ComponentPathsOf(panelComponents))

PanelSelections == {PathSeq(S) : S \in SUBSET PanelPaths \ {{}}}

\* A.tsx and B.tsx, neither imported, or B.tsx importing A.tsx
PanelWorkspaces ==
    { FsOf({AFile, BFile(<<>>)}),
      FsOf({AFile, BFile(<<Stmt("importDefault", <<".","/","A">>, <<"A">>)>>)}) }

InitPanel == files \in PanelWorkspaces /\ RunNotStarted

NextPanel ==
    \/ ScanComponents
    \/ (\E f \in scanPending : ClassifyFile(f))
    \/ AnalyzeStart
    \/ (\E f \in pending : ExtractImports(f))
    \/ BuildGraph
    \/ FindUnused
    \/ CheckSafety
    \/ CheckSafetyThrows
    \/ ShowResults
    \/ (\E f \in DOMAIN files : FileRemovedOutside(f))
    \/ (\E f \in PanelPaths, a \in Answers : handleDelete(f, a))
    \/ (\E sel \in PanelSelections, a \in Answers : handleBulkDelete(sel, a))

SpecPanel == InitPanel /\ [][NextPanel]_vars

\* the files the step took from storage
FilesDeletedInStep == DOMAIN files \ DOMAIN files'

\* C29: a step of the panel deletes only files of components that were in
\* the panel's list when the message came; it adds nothing to the list, and
\* a component leaves the list exactly when the step deleted its file, so a
\* delete that fails keeps the component listed; and a confirmed bulk delete
\* deletes every selected file that is listed and exists, also after a
\* selected file whose delete failed.
PanelDeletesListedAndSucceededOnly ==
    [][ /\ removals' # removals =>
            /\ \A f \in FilesDeletedInStep : InPanel(panelComponents, f)
            /\ \A f \in Elements(ComponentPathsOf(panelComponents')) :
                  InPanel(panelComponents, f)
            /\ \A f \in Elements(ComponentPathsOf(panelComponents)) :
                  ~InPanel(panelComponents', f) <=> f \in FilesDeletedInStep
        /\ \A sel \in PanelSelections :
              handleBulkDelete(sel, "Delete") =>
                 \A k \in 1..Len(sel) :
                    InPanel(panelComponents, sel[k]) /\ IsFile(files, sel[k])
                       => ~IsFile(files', sel[k]) ]_vars

\* a confirmed bulk delete failed on one listed component, which stays
\* listed, and deleted another
BulkDeleteFailedOnOneDeletedOther ==
    /\ answer = "Delete"
    /\ removals = 1
    /\ \E f \in Elements(ComponentPathsOf(panelComponents)) : ~IsFile(files, f)
    /\ \E r \in 1..Len(results) :
          /\ ~IsFile(files, results[r].filePath)
          /\ ~InPanel(panelComponents, results[r].filePath)
    /\ \E r \in 1..Len(results), q \in 1..Len(results) :
          /\ localeCompare(results[r].filePath, results[q].filePath) < 0
          /\ InPanel(panelComponents, results[r].filePath)
          /\ ~InPanel(panelComponents, results[q].filePath)

=============================================================================
